---- MODULE Spec2Model ----
(***************************************************************************)
(* Viewport framing of the dynamic map tool:                               *)
(*   src/src/services/map/geometryUtils.ts   (extractCoordinates,          *)
(*     validateCoordinate, generateCirclePoints, calculateOptimalZoom,     *)
(*     calculateEnhancedBounds)                                            *)
(*   src/src/services/map/dynamicMapService.ts (renderMapWithMapLibre,     *)
(*     the part that chooses the viewport)                                 *)
(*                                                                         *)
(* Numbers.  A coordinate is an integer number of micro-degrees.  Every    *)
(* input coordinate is a multiple of 0.005 degrees (5000 micro-degrees),   *)
(* which makes every product with the padding factors of the source        *)
(* (0.5, 0.8, 0.6, 0.4, 1.8, 1.5, 1.3, 1.4, 0.15) an integer: the          *)
(* arithmetic of the model is exact, it is the arithmetic of the source    *)
(* without the rounding of IEEE doubles.  NaN and the infinities are       *)
(* kept as separate values wherever the source can produce them.           *)
(***************************************************************************)
EXTENDS Integers, Sequences, FiniteSets, TLC

Deg(n) == n * 1000000        \* n degrees
Milli(n) == n * 1000         \* n thousandths of a degree

Abs(x) == IF x < 0 THEN -x ELSE x

RECURSIVE GCD(_, _)
GCD(a, b) == IF b = 0 THEN a ELSE GCD(b, a % b)

(***************************************************************************)
(* JavaScript values that can stand where a coordinate is expected.        *)
(***************************************************************************)
Num(n) == [t |-> "number", v |-> n]          \* the number n
NumStr(n) == [t |-> "numeric string", v |-> n] \* a string such as "52.37"
BadStr == [t |-> "string", v |-> 0]          \* a string such as "abc"
Undefined == [t |-> "undefined", v |-> 0]
JsNull == [t |-> "null", v |-> 0]

\* parseFloat(value): a number, or NaN
parseFloat(value) ==
  IF value.t \in {"number", "numeric string"}
    THEN [nan |-> FALSE, v |-> value.v]
    ELSE [nan |-> TRUE, v |-> 0]

\* validateCoordinate without the latitude range check
validateCoordinateNoLatitudeRange(value, type) ==
  LET num == parseFloat(value) IN
  IF num.nan
    THEN [threw |-> TRUE, num |-> 0, message |-> "Invalid coordinate"]
  ELSE IF type = "longitude" /\ (num.v < -180000000 \/ num.v > 180000000)
    THEN [threw |-> TRUE, num |-> 0, message |-> "Longitude out of range [-180, 180]"]
  ELSE [threw |-> FALSE, num |-> num.v, message |-> ""]

\* validateCoordinate(value, type): the number, or the Error it throws
validateCoordinate(value, type) ==
  LET num == parseFloat(value) IN
  IF num.nan
    THEN [threw |-> TRUE, num |-> 0, message |-> "Invalid coordinate"]
  ELSE IF type = "latitude" /\ (num.v < Deg(-90) \/ num.v > Deg(90))
    THEN [threw |-> TRUE, num |-> 0, message |-> "Latitude out of range [-90, 90]"]
  ELSE IF type = "longitude" /\ (num.v < Deg(-180) \/ num.v > Deg(180))
    THEN [threw |-> TRUE, num |-> 0, message |-> "Longitude out of range [-180, 180]"]
  ELSE [threw |-> FALSE, num |-> num.v, message |-> ""]

(***************************************************************************)
(* Items.  shape says what the item is, vals holds what it carries:        *)
(*   "array"        an array, vals its elements                            *)
(*   "coordinates"  an object with a coordinates array, vals its elements  *)
(*   "latlon"       an object, vals = <<item.lat, item.lon>> (Undefined    *)
(*                  for a field the object does not have)                  *)
(*   "other"        an object with none of coordinates, lat, lon           *)
(*   "null"         the value null (or undefined)                          *)
(***************************************************************************)
Item(shape, vals) == [shape |-> shape, vals |-> vals]
LatLon(lat, lon) == Item("latlon", <<Num(lat), Num(lon)>>)

NoPoint == [kind |-> "null", lat |-> 0, lon |-> 0, warned |-> 1]

\* extractCoordinates reading a bare array as [lon, lat]
extractCoordinatesArrayLonFirst(item) ==
  IF item.shape = "null"
    \* Array.isArray(null) is false, then item.coordinates throws
    THEN [kind |-> "throw", lat |-> 0, lon |-> 0, warned |-> 0]
  ELSE
    LET has2 == Len(item.vals) >= 2
        lat == IF item.shape = "array"
                 THEN (IF has2 THEN item.vals[2] ELSE Undefined)
               ELSE IF item.shape = "coordinates"
                 THEN (IF has2 THEN item.vals[1] ELSE Undefined)
               ELSE IF item.shape = "latlon"
                 THEN (IF item.vals[1].t # "undefined" /\ item.vals[2].t # "undefined"
                         THEN item.vals[1] ELSE Undefined)
               ELSE Undefined
        lon == IF item.shape = "array"
                 THEN (IF has2 THEN item.vals[1] ELSE Undefined)
               ELSE IF item.shape = "coordinates"
                 THEN (IF has2 THEN item.vals[2] ELSE Undefined)
               ELSE IF item.shape = "latlon"
                 THEN (IF item.vals[1].t # "undefined" /\ item.vals[2].t # "undefined"
                         THEN item.vals[2] ELSE Undefined)
               ELSE Undefined
    IN
    IF lat.t = "undefined" \/ lon.t = "undefined"
      THEN NoPoint
    ELSE
      LET validLat == validateCoordinate(lat, "latitude")
          validLon == validateCoordinate(lon, "longitude")
      IN IF validLat.threw \/ validLon.threw
           THEN NoPoint
           ELSE [kind |-> "point", lat |-> validLat.num, lon |-> validLon.num,
                 warned |-> 0]

\* extractCoordinates(item, index, type): a Point, null, or a thrown
\* TypeError; warned counts the logger.warn calls it made
extractCoordinates(item) ==
  IF item.shape = "null"
    \* Array.isArray(null) is false, then item.coordinates throws
    THEN [kind |-> "throw", lat |-> 0, lon |-> 0, warned |-> 0]
  ELSE
    LET has2 == Len(item.vals) >= 2
        lat == IF item.shape \in {"array", "coordinates"}
                 THEN (IF has2 THEN item.vals[1] ELSE Undefined)
               ELSE IF item.shape = "latlon"
                 THEN (IF item.vals[1].t # "undefined" /\ item.vals[2].t # "undefined"
                         THEN item.vals[1] ELSE Undefined)
               ELSE Undefined
        lon == IF item.shape \in {"array", "coordinates"}
                 THEN (IF has2 THEN item.vals[2] ELSE Undefined)
               ELSE IF item.shape = "latlon"
                 THEN (IF item.vals[1].t # "undefined" /\ item.vals[2].t # "undefined"
                         THEN item.vals[2] ELSE Undefined)
               ELSE Undefined
    IN
    IF lat.t = "undefined" \/ lon.t = "undefined"
      THEN NoPoint
    ELSE
      LET validLat == validateCoordinate(lat, "latitude")
          validLon == validateCoordinate(lon, "longitude")
      IN IF validLat.threw \/ validLon.threw
           THEN NoPoint
           ELSE [kind |-> "point", lat |-> validLat.num, lon |-> validLon.num,
                 warned |-> 0]

(***************************************************************************)
(* Numbers that calculateOptimalZoom computes with.  A value is one of     *)
(*   NaN, -Infinity, +Infinity,                                            *)
(*   a whole number n                         (k = "whole"),               *)
(*   log2(p/q)                                (k = "log2"),                *)
(*   log2(p/q) - 0.5                          (k = "log2-half"),           *)
(* with p, q positive integers without a common factor.  log2(p/q) and     *)
(* log2(p/q) - 0.5 are compared with whole numbers through p/q and the     *)
(* square root of 2, which needs integer arithmetic only.                  *)
(***************************************************************************)
XNaN == [k |-> "nan", n |-> 0, p |-> 0, q |-> 1]
XPosInf == [k |-> "+inf", n |-> 0, p |-> 0, q |-> 1]
XNegInf == [k |-> "-inf", n |-> 0, p |-> 0, q |-> 1]
XWhole(n) == [k |-> "whole", n |-> n, p |-> 0, q |-> 1]
XLog2(p, q) == LET g == GCD(p, q) IN [k |-> "log2", n |-> 0, p |-> p \div g, q |-> q \div g]

\* a/b < c/d for a, c >= 0 and b, d > 0 (continued fractions, no products)
RECURSIVE RatLess(_, _, _, _)
RatLess(a, b, c, d) ==
  LET qa == a \div b
      qc == c \div d
      ra == a % b
      rc == c % d
  IN IF qa # qc THEN qa < qc
     ELSE IF rc = 0 THEN FALSE
     ELSE IF ra = 0 THEN TRUE
     ELSE RatLess(d, rc, b, ra)

\* r/m > sqrt(2) - 1 for 0 <= r and 0 < m
RECURSIVE AboveSqrt2Minus1(_, _)
AboveSqrt2Minus1(r, m) ==
  IF r = 0 THEN FALSE
  ELSE IF r >= m THEN TRUE
  ELSE IF m - r < r THEN TRUE
  ELSE IF (m - r) - r >= r THEN FALSE
  ELSE ~AboveSqrt2Minus1((m - r) - r, r)

\* a/b > sqrt(2) for 0 <= a and 0 < b
AboveSqrt2(a, b) ==
  IF a < b THEN FALSE
  ELSE IF a - b >= b THEN TRUE
  ELSE AboveSqrt2Minus1(a - b, b)

\* x < n, for a whole number n >= 0
XLess(x, n) ==
  CASE x.k = "nan" -> FALSE
    [] x.k = "-inf" -> TRUE
    [] x.k = "+inf" -> FALSE
    [] x.k = "whole" -> x.n < n
    [] x.k = "log2" -> RatLess(x.p, x.q, 2^n, 1)
    [] x.k = "log2-half" ->
         IF x.q > x.p \div (2^n) THEN TRUE ELSE ~AboveSqrt2(x.p, x.q * 2^n)

\* x > n, for a whole number n >= 0
XGreater(x, n) ==
  CASE x.k = "nan" -> FALSE
    [] x.k = "-inf" -> FALSE
    [] x.k = "+inf" -> TRUE
    [] x.k = "whole" -> x.n > n
    [] x.k = "log2" -> RatLess(2^n, 1, x.p, x.q)
    [] x.k = "log2-half" ->
         IF x.q > x.p \div (2^n) THEN FALSE ELSE AboveSqrt2(x.p, x.q * 2^n)

\* Math.log2(num / den) with a division by zero that gives NaN
MathLog2QuotientNaNOnZero(num, den) ==
  IF den = 0 THEN XNaN
  ELSE IF num = 0 THEN XNegInf
  ELSE IF (num < 0) # (den < 0) THEN XNaN
  ELSE XLog2(Abs(num), Abs(den))

\* Math.log2(num / den) for integers num and den (IEEE: x/0 is an infinity
\* or NaN, log2 of a negative number is NaN, log2(0) is -Infinity)
MathLog2Quotient(num, den) ==
  IF den = 0
    THEN (IF num > 0 THEN XPosInf ELSE XNaN)
  ELSE IF num = 0 THEN XNegInf
  ELSE IF (num < 0) # (den < 0) THEN XNaN
  ELSE XLog2(Abs(num), Abs(den))

\* Math.max in the place of Math.min
MathMinTakesLarger(a, b) ==
  IF a.k = "nan" \/ b.k = "nan" THEN XNaN
  ELSE IF a.k = "+inf" \/ b.k = "+inf" THEN XPosInf
  ELSE IF a.k = "-inf" THEN b
  ELSE IF b.k = "-inf" THEN a
  ELSE IF RatLess(b.p, b.q, a.p, a.q) THEN a ELSE b

\* Math.min(a, b) of two values of kind nan, -inf, +inf or log2
MathMin(a, b) ==
  IF a.k = "nan" \/ b.k = "nan" THEN XNaN
  ELSE IF a.k = "-inf" \/ b.k = "-inf" THEN XNegInf
  ELSE IF a.k = "+inf" THEN b
  ELSE IF b.k = "+inf" THEN a
  ELSE IF RatLess(b.p, b.q, a.p, a.q) THEN b ELSE a

\* x - zoomOutFactor, zoomOutFactor = 0.5 (geometryUtils.ts:114)
MinusZoomOutFactor(x) ==
  IF x.k = "log2" THEN [x EXCEPT !.k = "log2-half"] ELSE x

\* Math.max(lo, Math.min(hi, x)) for whole numbers lo <= hi
ClampZoom(lo, hi, x) ==
  LET capped == IF XGreater(x, hi) THEN XWhole(hi) ELSE x
  IN IF XLess(capped, lo) THEN XWhole(lo) ELSE capped

WORLD_PX_HEIGHT == 256
WORLD_PX_WIDTH == 256
DefaultPaddingPixels == 80
MinZoom == 1
MaxZoom == 17

\* (effective * 360) / (span * worldPx) as the quotient of two integers,
\* span in micro-degrees
ZoomQuotient(effective, span, worldPx) ==
  LET g1 == GCD(Deg(360), worldPx)
      a == Deg(360) \div g1
      b == worldPx \div g1
      g2 == IF span = 0 THEN a ELSE GCD(a, Abs(span))
  IN [num |-> effective * (a \div g2), den |-> (span \div g2) * b]

Span(hi, lo) == hi - lo

\* calculateOptimalZoom(bounds, mapWidth, mapHeight, paddingPixels)
calculateOptimalZoom(bounds, mapWidth, mapHeight, paddingPixels) ==
  LET effectiveWidth == mapWidth - paddingPixels * 2
      effectiveHeight == mapHeight - paddingPixels * 2
      latSpan == Span(bounds.north, bounds.south)
      lngSpan == Span(bounds.east, bounds.west)
      latQ == ZoomQuotient(effectiveHeight, latSpan, WORLD_PX_HEIGHT)
      lngQ == ZoomQuotient(effectiveWidth, lngSpan, WORLD_PX_WIDTH)
      latZoom == MathLog2Quotient(latQ.num, latQ.den)
      lngZoom == MathLog2Quotient(lngQ.num, lngQ.den)
      zoom == MathMin(latZoom, lngZoom)
  IN ClampZoom(MinZoom, MaxZoom, MinusZoomOutFactor(zoom))

(***************************************************************************)
(* Points, and the circles of the model.                                   *)
(*                                                                         *)
(* generateCirclePoints is trigonometry on doubles.  For the circles the   *)
(* model uses, the tables below hold the values of the source's formula    *)
(* (lines 56-75: asin/atan2 destination point for the 64 bearings          *)
(* 2*pi*i/64) in IEEE double arithmetic, in micro-degrees, in the order    *)
(* the loop pushes them.  A call with numPoints = n, n a divisor of 64,    *)
(* uses the bearings 2*pi*i/n, which are every (64/n)-th bearing of the    *)
(* table.  A radius is a whole number of millimetres.                      *)
(***************************************************************************)
M(latMicro, lonMicro) == [lat |-> latMicro, lon |-> lonMicro]

Metres(n) == n * 1000

earthRadiusMeters == 6371000
CircleSegments == 64

\* center 52.37, 4.89, radius 20000 m
CircleAmsterdam ==
  <<
    M(52549864, 4890000), M(52548995, 4918992), M(52546394, 4947702),
    M(52542088, 4975849), M(52536119, 5003160), M(52528544, 5029369),
    M(52519438, 5054221), M(52508889, 5077475), M(52497000, 5098907),
    M(52483885, 5118310), M(52469673, 5135497), M(52454502, 5150303),
    M(52438518, 5162588), M(52421876, 5172236), M(52404737, 5179157),
    M(52387267, 5183286), M(52369634, 5184588), M(52352008, 5183052),
    M(52334558, 5178698), M(52317453, 5171570), M(52300857, 5161740),
    M(52284928, 5149306), M(52269820, 5134388), M(52255677, 5117133),
    M(52242634, 5097708), M(52230816, 5076299), M(52220336, 5053113),
    M(52211293, 5028372), M(52203774, 5002312), M(52197850, 4975183),
    M(52193578, 4947243), M(52190998, 4918758), M(52190136, 4890000),
    M(52190998, 4861242), M(52193578, 4832757), M(52197850, 4804817),
    M(52203774, 4777688), M(52211293, 4751628), M(52220336, 4726887),
    M(52230816, 4703701), M(52242634, 4682292), M(52255677, 4662867),
    M(52269820, 4645612), M(52284928, 4630694), M(52300857, 4618260),
    M(52317453, 4608430), M(52334558, 4601302), M(52352008, 4596948),
    M(52369634, 4595412), M(52387267, 4596714), M(52404737, 4600843),
    M(52421876, 4607764), M(52438518, 4617412), M(52454502, 4629697),
    M(52469673, 4644503), M(52483885, 4661690), M(52497000, 4681093),
    M(52508889, 4702525), M(52519438, 4725779), M(52528544, 4750631),
    M(52536119, 4776840), M(52542088, 4804151), M(52546394, 4832298),
    M(52548995, 4861008)
  >>

\* center 0, 179.9, radius 20000 m: the circle crosses the antimeridian and
\* lonRad = centerLonRad + atan2(...) is not wrapped
CircleAntimeridian ==
  <<
    M(179864, 179900000), M(178998, 179917630), M(176408, 179935090),
    M(172119, 179952212), M(166173, 179968831), M(158626, 179984788),
    M(149552, 179999927), M(139037, 180014105), M(127183, 180027183),
    M(114105, 180039037), M(99927, 180049552), M(84787, 180058626),
    M(68831, 180066173), M(52212, 180072119), M(35090, 180076408),
    M(17630, 180078998), M(0, 180079864), M(-17630, 180078998),
    M(-35090, 180076408), M(-52212, 180072119), M(-68831, 180066173),
    M(-84787, 180058626), M(-99927, 180049552), M(-114105, 180039037),
    M(-127183, 180027183), M(-139037, 180014105), M(-149552, 179999927),
    M(-158626, 179984788), M(-166173, 179968831), M(-172119, 179952212),
    M(-176408, 179935090), M(-178998, 179917630), M(-179864, 179900000),
    M(-178998, 179882370), M(-176408, 179864910), M(-172119, 179847788),
    M(-166173, 179831169), M(-158626, 179815212), M(-149552, 179800073),
    M(-139037, 179785895), M(-127183, 179772817), M(-114105, 179760963),
    M(-99927, 179750448), M(-84787, 179741374), M(-68831, 179733827),
    M(-52212, 179727881), M(-35090, 179723592), M(-17630, 179721002),
    M(0, 179720136), M(17630, 179721002), M(35090, 179723592),
    M(52212, 179727881), M(68831, 179733827), M(84787, 179741374),
    M(99927, 179750448), M(114105, 179760963), M(127183, 179772817),
    M(139037, 179785895), M(149552, 179800073), M(158626, 179815212),
    M(166173, 179831169), M(172119, 179847788), M(176408, 179864910),
    M(178998, 179882370)
  >>

\* center 90, 0, radius 0.01 m: radiusRadians is 1.57e-9, Math.cos(radiusRadians)
\* is 1 in doubles and Math.cos(centerLatRad) is 6.1e-17, so the argument of
\* Math.asin is 1 and every latitude is 90; Math.atan2 gets (0, 0) for the
\* first bearing and (a positive or negative number, 0) for the others
CirclePole ==
  <<
    M(90000000, 0), M(90000000, 90000000), M(90000000, 90000000),
    M(90000000, 90000000), M(90000000, 90000000), M(90000000, 90000000),
    M(90000000, 90000000), M(90000000, 90000000), M(90000000, 90000000),
    M(90000000, 90000000), M(90000000, 90000000), M(90000000, 90000000),
    M(90000000, 90000000), M(90000000, 90000000), M(90000000, 90000000),
    M(90000000, 90000000), M(90000000, 90000000), M(90000000, 90000000),
    M(90000000, 90000000), M(90000000, 90000000), M(90000000, 90000000),
    M(90000000, 90000000), M(90000000, 90000000), M(90000000, 90000000),
    M(90000000, 90000000), M(90000000, 90000000), M(90000000, 90000000),
    M(90000000, 90000000), M(90000000, 90000000), M(90000000, 90000000),
    M(90000000, 90000000), M(90000000, 90000000), M(90000000, 90000000),
    M(90000000, -90000000), M(90000000, -90000000), M(90000000, -90000000),
    M(90000000, -90000000), M(90000000, -90000000), M(90000000, -90000000),
    M(90000000, -90000000), M(90000000, -90000000), M(90000000, -90000000),
    M(90000000, -90000000), M(90000000, -90000000), M(90000000, -90000000),
    M(90000000, -90000000), M(90000000, -90000000), M(90000000, -90000000),
    M(90000000, -90000000), M(90000000, -90000000), M(90000000, -90000000),
    M(90000000, -90000000), M(90000000, -90000000), M(90000000, -90000000),
    M(90000000, -90000000), M(90000000, -90000000), M(90000000, -90000000),
    M(90000000, -90000000), M(90000000, -90000000), M(90000000, -90000000),
    M(90000000, -90000000), M(90000000, -90000000), M(90000000, -90000000),
    M(90000000, -90000000)
  >>

\* the table of a circle of the model
CircleTable(centerLat, centerLon, radiusMeters) ==
  IF centerLat = Milli(52370) /\ centerLon = Milli(4890) /\ radiusMeters = Metres(20000)
    THEN CircleAmsterdam
  ELSE IF centerLat = 0 /\ centerLon = Milli(179900) /\ radiusMeters = Metres(20000)
    THEN CircleAntimeridian
  ELSE CirclePole

\* generateCirclePoints(centerLat, centerLon, radiusMeters, numPoints)
generateCirclePoints(centerLat, centerLon, radiusMeters, numPoints) ==
  IF numPoints = 0 THEN <<>>
  ELSE [i \in 1..numPoints |->
          CircleTable(centerLat, centerLon, radiusMeters)
            [(i - 1) * (CircleSegments \div numPoints) + 1]]

\* a coordinate, and a list of points, on the grid of 0.005 degrees that the
\* arithmetic of the viewport works on
NearestOnGrid(micro) == ((micro + 2500) \div 5000) * 5000
OnGrid(points) ==
  [i \in 1..Len(points) |->
     [lat |-> NearestOnGrid(points[i].lat), lon |-> NearestOnGrid(points[i].lon)]]

(***************************************************************************)
(* Features.                                                               *)
(*   marker, route point: an Item                                          *)
(*   route:   [form, points]; form "array" is a bare array of points,      *)
(*            form "points" an object {points: [...]}, form "none" an      *)
(*            object without a points array                                *)
(*   polygon: [type, coordinates, center, radius]; type is "polygon",      *)
(*            "circle" or "none" (the entry has no type); coordinates is a *)
(*            sequence of arrays of numbers ([lon, lat]), empty when the   *)
(*            polygon has none; center.present and radius > 0 say whether  *)
(*            polygon.center and polygon.radius are truthy                 *)
(***************************************************************************)
Route(form, points) == [form |-> form, points |-> points]
NoCenter == [present |-> FALSE, lat |-> 0, lon |-> 0]
Polygon(coordinates) ==
  [type |-> "polygon", coordinates |-> coordinates, center |-> NoCenter, radius |-> 0]
Circle(lat, lon, radius) ==
  [type |-> "circle", coordinates |-> <<>>,
   center |-> [present |-> TRUE, lat |-> lat, lon |-> lon], radius |-> radius]

\* an entry with center and radius and no type, which the schema accepts
CircleWithoutType(lat, lon, radius) ==
  [type |-> "none", coordinates |-> <<>>,
   center |-> [present |-> TRUE, lat |-> lat, lon |-> lon], radius |-> radius]

RECURSIVE Flatten(_)
Flatten(seqs) == IF seqs = <<>> THEN <<>> ELSE Head(seqs) \o Flatten(Tail(seqs))

\* the results of extractCoordinates over a list of items
ExtractEach(items) == [i \in 1..Len(items) |-> extractCoordinates(items[i])]

\* the points pushed for a list of items: if (coords) points.push(coords)
PushedPoints(items) ==
  LET ok == SelectSeq(ExtractEach(items), LAMBDA e : e.kind = "point")
  IN [i \in 1..Len(ok) |-> [lat |-> ok[i].lat, lon |-> ok[i].lon]]

\* lines 133-139
MarkerPoints(markers) == PushedPoints(markers)

\* lines 141-156
RoutePoints(routes) ==
  Flatten([r \in 1..Len(routes) |->
             IF routes[r].form \in {"array", "points"}
               THEN PushedPoints(routes[r].points)
               ELSE <<>>])

\* polygon vertices read as [lat, lon]
PolygonVertexPointsLatFirst(polygon) ==
  LET ok == SelectSeq(polygon.coordinates, LAMBDA c : Len(c) >= 2)
  IN [i \in 1..Len(ok) |-> [lat |-> ok[i][1], lon |-> ok[i][2]]]

\* lines 162-168: one point per coordinate array of length >= 2, read as
\* [lon, lat], not validated
PolygonVertexPoints(polygon) ==
  LET ok == SelectSeq(polygon.coordinates, LAMBDA c : Len(c) >= 2)
  IN [i \in 1..Len(ok) |-> [lat |-> ok[i][2], lon |-> ok[i][1]]]

\* lines 170-179
PolygonCirclePoints(polygon) ==
  IF polygon.type = "circle" /\ polygon.center.present /\ polygon.radius # 0
    THEN OnGrid(generateCirclePoints(polygon.center.lat, polygon.center.lon,
                                     polygon.radius, CircleSegments))
    ELSE <<>>

\* lines 158-181
PolygonPoints(polygons) ==
  Flatten([i \in 1..Len(polygons) |->
             PolygonVertexPoints(polygons[i]) \o PolygonCirclePoints(polygons[i])])

\* lines 130-181: const points
CollectPoints(markers, routes, polygons) ==
  MarkerPoints(markers) \o RoutePoints(routes) \o PolygonPoints(polygons)

\* an item that makes extractCoordinates throw is met while collecting
CollectThrows(markers, routes) ==
  \/ \E i \in 1..Len(markers) : extractCoordinates(markers[i]).kind = "throw"
  \/ \E r \in 1..Len(routes) :
       /\ routes[r].form \in {"array", "points"}
       /\ \E i \in 1..Len(routes[r].points) :
            extractCoordinates(routes[r].points[i]).kind = "throw"

RECURSIVE SumSeq(_)
SumSeq(numbers) == IF numbers = <<>> THEN 0 ELSE Head(numbers) + SumSeq(Tail(numbers))

\* lines 297-309: the logger.warn calls extractCoordinates makes over a list
\* of items
WarningsFor(items) == SumSeq([i \in 1..Len(items) |-> extractCoordinates(items[i]).warned])

\* the logger.warn calls made while calculateEnhancedBounds collects its
\* points: lines 136, 146 and 151 go through extractCoordinates, lines
\* 160-180 make none
CollectWarnings(markers, routes, polygons) ==
  WarningsFor(markers)
  + SumSeq([r \in 1..Len(routes) |->
              IF routes[r].form \in {"array", "points"}
                THEN WarningsFor(routes[r].points)
                ELSE 0])

SetMax(S) == CHOOSE x \in S : \A y \in S : y <= x
SetMin(S) == CHOOSE x \in S : \A y \in S : x <= y

Bounds(north, south, east, west) ==
  [north |-> north, south |-> south, east |-> east, west |-> west]

\* lines 187-193: raw bounds of a non-empty list of points
RawBounds(points) ==
  LET lats == {points[i].lat : i \in 1..Len(points)}
      lons == {points[i].lon : i \in 1..Len(points)}
  IN Bounds(SetMax(lats), SetMin(lats), SetMax(lons), SetMin(lons))

Max(a, b) == IF a >= b THEN a ELSE b
Min(a, b) == IF a <= b THEN a ELSE b

\* x * (n / 10) and x * (n / 100) for x >= 0, without overflow
TimesTenths(x, n) == (x \div 10) * n + ((x % 10) * n) \div 10
TimesHundredths(x, n) == (x \div 100) * n + ((x % 100) * n) \div 100

\* the base buffer without the fixed 0.05 degrees of a very small area
BaseBufferAlwaysRelative(maxSpan, markerCount) ==
  IF markerCount = 1 THEN TimesTenths(maxSpan, 5)
  ELSE IF maxSpan < Milli(10) THEN TimesTenths(maxSpan, 8)
  ELSE IF maxSpan < Milli(100) THEN TimesTenths(maxSpan, 6)
  ELSE TimesTenths(maxSpan, 4)

\* lines 204-220: base buffer
BaseBuffer(maxSpan, markerCount) ==
  IF markerCount = 1 THEN TimesTenths(maxSpan, 5)
  ELSE IF maxSpan < Milli(1) THEN Milli(50)
  ELSE IF maxSpan < Milli(10) THEN TimesTenths(maxSpan, 8)
  ELSE IF maxSpan < Milli(100) THEN TimesTenths(maxSpan, 6)
  ELSE TimesTenths(maxSpan, 4)

\* the route factor applied for at most one marker only
RouteBufferSingleMarkerOnly(buffer, markerCount, hasRoutes) ==
  IF hasRoutes /\ markerCount <= 1 THEN TimesTenths(buffer, 15) ELSE buffer

\* lines 222-232: route-specific padding
RouteBuffer(buffer, markerCount, hasRoutes) ==
  IF hasRoutes
    THEN (IF markerCount > 1 THEN TimesTenths(buffer, 18) ELSE TimesTenths(buffer, 15))
    ELSE buffer

\* lines 234-238: polygon-specific padding
PolygonBuffer(buffer, hasPolygons) ==
  IF hasPolygons THEN TimesTenths(buffer, 13) ELSE buffer

\* the marker density factor 1.2 in place of 1.4
DensityBufferTimes12(buffer, markerCount) ==
  IF markerCount > 3 THEN TimesTenths(buffer, 12) ELSE buffer

\* lines 240-243: marker density
DensityBuffer(buffer, markerCount) ==
  IF markerCount > 3 THEN TimesTenths(buffer, 14) ELSE buffer

\* lines 201-247: bufferDegrees
BufferDegrees(maxSpan, markerCount, hasRoutes, hasPolygons) ==
  LET scaled == DensityBuffer(
                  PolygonBuffer(
                    RouteBuffer(BaseBuffer(maxSpan, markerCount), markerCount, hasRoutes),
                    hasPolygons),
                  markerCount)
      minBuffer == TimesHundredths(maxSpan, 15)
  IN Max(scaled, minBuffer)

\* lines 249-255: bufferedBounds
BufferedBounds(bounds, bufferDegrees) ==
  Bounds(Min(Deg(90), bounds.north + bufferDegrees),
         Max(Deg(-90), bounds.south - bufferDegrees),
         Min(Deg(180), bounds.east + bufferDegrees),
         Max(Deg(-180), bounds.west - bufferDegrees))

\* the center with the latitude first
CenterLatitudeFirst(bufferedBounds) ==
  <<bufferedBounds.south + bufferedBounds.north,
    bufferedBounds.west + bufferedBounds.east>>

\* lines 257-261: center = [(west + east) / 2, (south + north) / 2]; the two
\* numbers are kept in halves of a micro-degree, so that the division by 2
\* is exact
Center(bufferedBounds) ==
  <<bufferedBounds.west + bufferedBounds.east,
    bufferedBounds.south + bufferedBounds.north>>

NoBounds == Bounds(0, 0, 0, 0)
Thrown(message) ==
  [status |-> "throw", error |-> message, bounds |-> NoBounds,
   center |-> <<0, 0>>, zoom |-> XNaN]

NoValidCoordinates == "No valid coordinates found to calculate bounds"

\* the buffer calculateEnhancedBounds uses for its arguments (lines 195-247)
BufferFor(markers, routes, polygons) ==
  LET bounds == RawBounds(CollectPoints(markers, routes, polygons))
      latSpan == bounds.north - bounds.south
      lngSpan == bounds.east - bounds.west
      maxSpan == Max(latSpan, lngSpan)
      markerCount == Len(markers)
  IN BufferDegrees(maxSpan, markerCount, Len(routes) > 0, Len(polygons) > 0)

\* lines 195-198: maxSpan
MaxSpanOf(bounds) == Max(bounds.north - bounds.south, bounds.east - bounds.west)

\* lines 257-266: center, zoom and the returned record
BoundsResult(bufferedBounds, mapWidth, mapHeight) ==
  [status |-> "ok", error |-> "",
   bounds |-> bufferedBounds,
   center |-> Center(bufferedBounds),
   zoom |-> calculateOptimalZoom(bufferedBounds, mapWidth, mapHeight,
                                 DefaultPaddingPixels)]

\* lines 195-266: from the raw bounds to the returned record
PaddedResult(bounds, markerCount, hasRoutes, hasPolygons, mapWidth, mapHeight) ==
  BoundsResult(BufferedBounds(bounds,
                              BufferDegrees(MaxSpanOf(bounds), markerCount,
                                            hasRoutes, hasPolygons)),
               mapWidth, mapHeight)

\* lines 183-266: from the collected points to the returned record
EnhancedBoundsFrom(points, markerCount, hasRoutes, hasPolygons, mapWidth, mapHeight) ==
  IF Len(points) = 0
    THEN Thrown(NoValidCoordinates)
    ELSE PaddedResult(RawBounds(points), markerCount, hasRoutes, hasPolygons,
                      mapWidth, mapHeight)

\* points that outlive the call that collected them
FreshPointsKeepEarlier(earlier) == earlier

\* line 131: const points: Point[] = [], a new array in every call, whatever
\* earlier calls collected
FreshPoints(earlier) == <<>>

\* calculateEnhancedBounds called after calls that collected the points
\* earlier
calculateEnhancedBoundsAfter(earlier, markers, routes, mapWidth, mapHeight, polygons) ==
  IF CollectThrows(markers, routes)
    THEN Thrown("TypeError")
    ELSE EnhancedBoundsFrom(FreshPoints(earlier) \o CollectPoints(markers, routes, polygons),
                            Len(markers), Len(routes) > 0, Len(polygons) > 0,
                            mapWidth, mapHeight)

\* calculateEnhancedBounds(markers, routes, mapWidth, mapHeight, polygons)
calculateEnhancedBounds(markers, routes, mapWidth, mapHeight, polygons) ==
  calculateEnhancedBoundsAfter(<<>>, markers, routes, mapWidth, mapHeight, polygons)

(***************************************************************************)
(* renderMapWithMapLibre, lines 190-248: the viewport of a request.        *)
(* options.bbox is a sequence of JavaScript values, empty when the request *)
(* has no bbox.                                                            *)
(***************************************************************************)
InvalidBounds == "Invalid bounds: west must be < east and south must be < north"

\* the try block with the south-west corner as the only marker
BboxViewportOneCorner(bbox, width, height) ==
  LET west == validateCoordinate(bbox[1], "longitude")
      south == validateCoordinate(bbox[2], "latitude")
      east == validateCoordinate(bbox[3], "longitude")
      north == validateCoordinate(bbox[4], "latitude")
  IN IF west.threw THEN Thrown(west.message)
     ELSE IF south.threw THEN Thrown(south.message)
     ELSE IF east.threw THEN Thrown(east.message)
     ELSE IF north.threw THEN Thrown(north.message)
     ELSE IF west.num >= east.num \/ south.num >= north.num THEN Thrown(InvalidBounds)
     ELSE calculateEnhancedBounds(<<LatLon(south.num, west.num)>>,
                                  <<>>, width, height, <<>>)

\* lines 207-235: the body of the try block; threw says that it threw
BboxViewport(bbox, width, height) ==
  LET west == validateCoordinate(bbox[1], "longitude")
      south == validateCoordinate(bbox[2], "latitude")
      east == validateCoordinate(bbox[3], "longitude")
      north == validateCoordinate(bbox[4], "latitude")
  IN IF west.threw THEN Thrown(west.message)
     ELSE IF south.threw THEN Thrown(south.message)
     ELSE IF east.threw THEN Thrown(east.message)
     ELSE IF north.threw THEN Thrown(north.message)
     ELSE IF west.num >= east.num \/ south.num >= north.num THEN Thrown(InvalidBounds)
     ELSE calculateEnhancedBounds(
            <<LatLon(south.num, west.num), LatLon(north.num, east.num)>>,
            <<>>, width, height, <<>>)

\* lines 236-242: the catch block
BboxFallback(options) ==
  calculateEnhancedBounds(options.markers, options.routes, options.width,
                          options.height, options.polygons)

\* lines 207-242: try { ... } catch: what the try block gave, or the
\* fallback when it threw
CatchInvalidBbox(tried, options) ==
  IF tried.status = "throw" THEN BboxFallback(options) ELSE tried

\* the viewport when the catch block rethrows instead of falling back
ViewportWithoutFallback(options) ==
  IF Len(options.bbox) = 4
    THEN BboxViewport(options.bbox, options.width, options.height)
    ELSE calculateEnhancedBounds(options.markers, options.routes, options.width,
                                 options.height, options.polygons)

\* the logger.warn calls of lines 203-248: none on the corners of a valid
\* bbox; with an invalid bbox the warning of line 237, then those of the
\* fallback
ViewportWarnings(options) ==
  IF Len(options.bbox) = 4
    THEN IF BboxViewport(options.bbox, options.width, options.height).status = "throw"
           THEN 1 + CollectWarnings(options.markers, options.routes, options.polygons)
           ELSE 0
    ELSE CollectWarnings(options.markers, options.routes, options.polygons)

\* lines 203-248: bounds, center and zoom, or the error that leaves
\* renderMapWithMapLibre
Viewport(options) ==
  IF Len(options.bbox) = 4
    THEN CatchInvalidBbox(BboxViewport(options.bbox, options.width, options.height),
                          options)
    ELSE calculateEnhancedBounds(options.markers, options.routes, options.width,
                                 options.height, options.polygons)

(***************************************************************************)
(* Texts.  A text (an error message, the text of a tool result) is a       *)
(* sequence of pieces; a piece is a run of characters that JSON.stringify  *)
(* copies unchanged, or one character that it escapes (a double quote, a   *)
(* backslash, a line feed).  One text contains another when the pieces of  *)
(* the second occur in the first, in a row.                                *)
(***************************************************************************)
DoubleQuote == "\""
Backslash == "\\"
LineFeed == "\n"

\* String.prototype.includes
Includes(text, part) ==
  \E i \in 0..(Len(text) - Len(part)) : SubSeq(text, i + 1, i + Len(part)) = part

\* the characters of a string inside a JSON string literal
JsonEscape(text) ==
  [i \in 1..Len(text) |->
     IF text[i] = DoubleQuote THEN "\\\""
     ELSE IF text[i] = Backslash THEN "\\\\"
     ELSE IF text[i] = LineFeed THEN "\\n"
     ELSE text[i]]

\* JSON.stringify of a string
JsonString(text) == <<DoubleQuote>> \o JsonEscape(text) \o <<DoubleQuote>>

\* JSON.stringify({ error: message })
StringifyError(message) == <<"{", "\"error\":">> \o JsonString(message) \o <<"}">>

\* JSON.stringify({ error: message, help: helpMessage }, null, 2)
StringifyErrorAndHelp(message, helpMessage) ==
  <<"{", LineFeed, "  \"error\": ">> \o JsonString(message)
  \o <<",", LineFeed, "  \"help\": ">> \o JsonString(helpMessage)
  \o <<LineFeed, "}">>

\* the messages of the errors renderDynamicMap creates
ApiKeyNotSet ==
  <<"TomTom API key is not set. Please set TOMTOM_API_KEY environment variable or provide via session configuration.">>
DependenciesNotAvailable ==
  <<"Dynamic map dependencies not available",
    ". Install @maplibre/maplibre-gl-native and canvas to enable this feature, or use Docker for a pre-configured environment.">>
OriginWithoutDestination ==
  <<"Origin provided without destination. Both origin and destination are required for route planning.">>
DestinationWithoutOrigin ==
  <<"Destination provided without origin. Both origin and destination are required for route planning.">>
RequiresContent ==
  <<"Map requires content to display. Please provide at least one of: markers, polygons, routes, origin+destination (for route planning), or bbox (for area bounds).">>
InvalidOriginOrDestination == <<"Invalid origin or destination coordinates">>
MapRenderingFailed == <<"Map rendering failed: ", "render error">>
NoBufferReturned == <<"Map rendering failed: No buffer returned">>
PngConversionFailed == <<"PNG conversion failed: ", "out of memory">>
StyleLoadFailed == <<"Failed to parse style">>
RenderThrew == <<"First argument must be an options object">>

\* dynamicMapHandler.ts:50-57
HelpMessage ==
  <<"Dynamic map dependencies are not installed.", LineFeed, LineFeed,
    "To enable dynamic maps, install the required dependencies:", LineFeed,
    "npm install @maplibre/maplibre-gl-native canvas", LineFeed, LineFeed,
    "Note: These packages require native compilation and may need additional system dependencies.",
    LineFeed, LineFeed,
    "Once installed, restart the MCP server to use the dynamic map functionality.">>

\* values a promise can reject with: an Error with a message, an object
\* without a message property, null
ErrorValue(message) == [t |-> "Error", message |-> message]
PlainObject == [t |-> "object", message |-> <<>>]
NullValue == [t |-> "null", message |-> <<>>]
TypeErrorValue(message) == [t |-> "TypeError", message |-> message]

\* error.message: a string, undefined, or a TypeError when error is null
HasMessage(value) == value.t \in {"Error", "TypeError"}

(***************************************************************************)
(* renderDynamicMap (dynamicMapService.ts:855-1151) and the handler of the *)
(* tool (dynamicMapHandler.ts:24-88).                                      *)
(*   request: [origin, destination, markers, routes, polygons, bbox,       *)
(*            width, height]; origin and destination are items, Absent     *)
(*            when the request has none; the request has no waypoints      *)
(*   env:     what the world outside the function does during the call:    *)
(*            apiKey        whether the TomTom API key is set              *)
(*            dependencies  whether mbgl and createCanvas were loaded      *)
(*            routing       "route" when the routing service answers with  *)
(*                          a route, "fails" when the call rejects         *)
(*            style         StyleDocument, NoStyleDocument, or the value   *)
(*                          the request for the style rejects with         *)
(*            load          "ok" or "throws": whether map.load(style), the *)
(*                          first statement of the try block, throws       *)
(*            render        what map.render does: "image" (a buffer that   *)
(*                          converts to PNG), "error" (the callback gets   *)
(*                          an error), "no buffer" (it gets neither error  *)
(*                          nor buffer), "conversion fails" (the canvas    *)
(*                          throws), "throws" (map.render itself throws)   *)
(*   a promise settles as [settled, value, base64, contentType, width,     *)
(*   height]: resolved with a response, or rejected with value             *)
(***************************************************************************)
\* the options of renderMapWithMapLibre
Options(bbox, width, height, markers, routes, polygons) ==
  [bbox |-> bbox, width |-> width, height |-> height, markers |-> markers,
   routes |-> routes, polygons |-> polygons]

Absent == Item("absent", <<>>)

Request(origin, destination, markers, routes, polygons, bbox, width, height) ==
  [origin |-> origin, destination |-> destination, markers |-> markers,
   routes |-> routes, polygons |-> polygons, bbox |-> bbox,
   width |-> width, height |-> height]

StyleDocument == [t |-> "style", message |-> <<>>]
NoStyleDocument == [t |-> "no style", message |-> <<>>]

NoValue == [t |-> "none", message |-> <<>>]
PngBase64 == <<"iVBORw0KGgo=">>

Rejected(value) ==
  [settled |-> "reject", value |-> value, base64 |-> <<>>, contentType |-> "",
   width |-> 0, height |-> 0]
Resolved(base64, width, height) ==
  [settled |-> "resolve", value |-> NoValue, base64 |-> base64,
   contentType |-> "image/png", width |-> width, height |-> height]

\* !!value of an origin or a destination
Truthy(item) == item.shape \notin {"absent", "null"}

\* lines 877-893
HasOrigin(request) == Truthy(request.origin)
HasDestination(request) == Truthy(request.destination)
IsRoutePlanningMode(request) == HasOrigin(request) /\ HasDestination(request)

\* lines 902-906
HasContent(request) ==
  \/ Len(request.markers) > 0
  \/ Len(request.polygons) > 0
  \/ Len(request.routes) > 0
  \/ Len(request.bbox) = 4

\* lines 915-921: !originCoords || !destCoords
InvalidEndpoints(request) ==
  \/ extractCoordinates(request.origin).kind # "point"
  \/ extractCoordinates(request.destination).kind # "point"

\* lines 927-954: the markers pushed for origin and destination
PlanningMarkers(request) ==
  <<LatLon(extractCoordinates(request.origin).lat,
           extractCoordinates(request.origin).lon),
    LatLon(extractCoordinates(request.destination).lat,
           extractCoordinates(request.destination).lon)>>

\* lines 980-986: routePoints
DirectRoutePoints(route) ==
  IF route.form \in {"array", "points"} THEN route.points ELSE <<>>

\* lines 988-994: validCoords, for a route of more than one point
ValidCoords(route) ==
  IF Len(DirectRoutePoints(route)) > 1
    THEN PushedPoints(DirectRoutePoints(route))
    ELSE <<>>

\* a point of a route of more than one point makes extractCoordinates throw
DirectRoutesThrow(routes) ==
  \E r \in 1..Len(routes) :
    /\ Len(DirectRoutePoints(routes[r])) > 1
    /\ \E i \in 1..Len(DirectRoutePoints(routes[r])) :
         DirectRoutePoints(routes[r])[i].shape = "null"

\* m.lat and m.lon of a marker
MarkerField(marker, i) ==
  IF marker.shape = "latlon" THEN marker.vals[i] ELSE Undefined

\* Math.abs(value - x) < 0.001: false when value - x is NaN
Within(value, x) ==
  IF value.t \in {"number", "numeric string"} THEN Abs(value.v - x) < Milli(1)
  ELSE IF value.t = "null" THEN Abs(x) < Milli(1)
  ELSE FALSE

\* lines 1001-1008: markers.some(...)
HasMarkerAt(markers, point) ==
  \E i \in 1..Len(markers) :
    /\ Within(MarkerField(markers[i], 1), point.lat)
    /\ Within(MarkerField(markers[i], 2), point.lon)

\* lines 1011-1027: the start and end markers pushed for one route
AutoMarkers(markers, validCoords) ==
  IF Len(validCoords) > 1
    THEN (IF HasMarkerAt(markers, validCoords[1])
            THEN <<>>
            ELSE <<LatLon(validCoords[1].lat, validCoords[1].lon)>>)
         \o (IF HasMarkerAt(markers, validCoords[Len(validCoords)])
               THEN <<>>
               ELSE <<LatLon(validCoords[Len(validCoords)].lat,
                             validCoords[Len(validCoords)].lon)>>)
    ELSE <<>>

\* lines 976-1034: the markers after the direct routes were processed in turn
RECURSIVE MarkersAfterRoutes(_, _)
MarkersAfterRoutes(markers, routes) ==
  IF routes = <<>> THEN markers
  ELSE MarkersAfterRoutes(markers \o AutoMarkers(markers, ValidCoords(Head(routes))),
                          Tail(routes))

\* line 1029: validCoords.map((coord) => ({ lat, lon }))
PointsAsItems(points) == [i \in 1..Len(points) |-> LatLon(points[i].lat, points[i].lon)]

\* lines 976-1034: routes, the direct routes of more than one valid point
DirectRoutes(routes) ==
  LET kept == SelectSeq(routes, LAMBDA r : Len(ValidCoords(r)) > 1)
  IN [i \in 1..Len(kept) |-> Route("array", PointsAsItems(ValidCoords(kept[i])))]

\* lines 1040-1115: the route of the routing service, none when the call
\* fails (the catch of line 1110 proceeds without a route)
PlannedRoutes(request, env) ==
  IF env.routing = "route"
    THEN <<Route("array", PlanningMarkers(request))>>
    ELSE <<>>

\* lines 1118-1129: the options renderMapWithMapLibre is called with
MapLibreOptions(request, env) ==
  IF IsRoutePlanningMode(request)
    THEN Options(request.bbox, request.width, request.height,
                 request.markers \o PlanningMarkers(request),
                 PlannedRoutes(request, env), request.polygons)
    ELSE Options(request.bbox, request.width, request.height,
                 MarkersAfterRoutes(request.markers, request.routes),
                 DirectRoutes(request.routes), request.polygons)

\* dynamicMapService.ts:320: the entry is handled as a circle
DrawnAsCircle(polygon) ==
  polygon.type = "circle" \/ (polygon.center.present /\ polygon.radius # 0)

\* lines 319-406: the renderer turns the entry into a feature; the center of
\* an entry of the model is a pair of numbers whenever it is present
IsDrawn(polygon) ==
  IF DrawnAsCircle(polygon)
    THEN polygon.center.present /\ polygon.radius > 0
    ELSE Len(polygon.coordinates) >= 3

\* lines 334-344 and 376-383: the points of the ring of the feature, before
\* it is closed: the circle points, on the grid of the model, or the
\* coordinate pairs read as [lon, lat]
DrawnPoints(polygon) ==
  IF DrawnAsCircle(polygon)
    THEN OnGrid(generateCirclePoints(polygon.center.lat, polygon.center.lon,
                                     polygon.radius, CircleSegments))
    ELSE PolygonVertexPoints(polygon)

\* the error a thrown viewport leaves renderMapWithMapLibre with
ViewportError(viewport) ==
  IF viewport.error = "TypeError"
    THEN TypeErrorValue(<<"Cannot read properties of null (reading 'coordinates')">>)
    ELSE ErrorValue(<<viewport.error>>)

\* renderMapWithMapLibre, lines 189-848, after the viewport was chosen
RenderWithViewport(viewport, options, env) ==
  IF viewport.status = "throw" THEN Rejected(ViewportError(viewport))
  \* line 273: the request for the style rejects
  ELSE IF env.style.t \notin {"style", "no style"} THEN Rejected(env.style)
  \* lines 280-282
  ELSE IF env.style.t = "no style"
    THEN Rejected(ErrorValue(<<"Invalid style data received from TomTom API">>))
  \* lines 310-779: an exception in the try block is rethrown by the catch
  ELSE IF env.load = "throws" THEN Rejected(ErrorValue(StyleLoadFailed))
  \* line 782: an exception in the executor of the promise rejects it
  ELSE IF env.render = "throws" THEN Rejected(TypeErrorValue(RenderThrew))
  \* lines 786-790
  ELSE IF env.render = "error" THEN Rejected(ErrorValue(MapRenderingFailed))
  ELSE IF env.render = "no buffer" THEN Rejected(ErrorValue(NoBufferReturned))
  \* lines 837-839
  ELSE IF env.render = "conversion fails"
    THEN Rejected(ErrorValue(PngConversionFailed))
  ELSE Resolved(PngBase64, options.width, options.height)

\* what renderMapWithMapLibre does after the viewport was chosen, in order:
\* the requests it sends ("copyright", "style"), the native map it constructs
\* ("construct"), the calls map.render and map.release, and the settling of
\* the promise it returned ("settle")
MapLibreEvents(viewport, env) ==
  IF viewport.status = "throw" THEN <<"settle">>
  \* lines 270-282
  ELSE IF env.style.t # "style" THEN <<"copyright", "style", "settle">>
  \* lines 285-311 and 844-847
  ELSE IF env.load = "throws"
    THEN <<"copyright", "style", "construct", "release", "settle">>
  \* line 781: return new Promise(...), not awaited: the catch of line 844
  \* does not run when the promise rejects
  ELSE IF env.render = "throws"
    THEN <<"copyright", "style", "construct", "render", "settle">>
  \* lines 782-840: the callback releases the map, then settles the promise
  ELSE <<"copyright", "style", "construct", "render", "release", "settle">>

\* renderMapWithMapLibre(options)
renderMapWithMapLibre(options, env) == RenderWithViewport(Viewport(options), options, env)

\* lines 861-1143: the try block of renderDynamicMap
TryRenderDynamicMap(request, env) ==
  IF ~env.dependencies THEN Rejected(ErrorValue(DependenciesNotAvailable))
  ELSE IF HasOrigin(request) /\ ~HasDestination(request)
    THEN Rejected(ErrorValue(OriginWithoutDestination))
  ELSE IF ~HasOrigin(request) /\ HasDestination(request)
    THEN Rejected(ErrorValue(DestinationWithoutOrigin))
  ELSE IF ~IsRoutePlanningMode(request) /\ ~HasContent(request)
    THEN Rejected(ErrorValue(RequiresContent))
  ELSE IF IsRoutePlanningMode(request) /\ InvalidEndpoints(request)
    THEN Rejected(ErrorValue(InvalidOriginOrDestination))
  ELSE IF ~IsRoutePlanningMode(request) /\ DirectRoutesThrow(request.routes)
    THEN Rejected(TypeErrorValue(<<"Cannot read properties of null (reading 'coordinates')">>))
  ELSE renderMapWithMapLibre(MapLibreOptions(request, env), env)

\* lines 1144-1150: catch (error) { logger.error(... error.message ...); throw
\* error }; reading error.message of null throws a TypeError instead
Rethrow(outcome) ==
  IF outcome.settled = "reject" /\ outcome.value.t = "null"
    THEN Rejected(TypeErrorValue(<<"Cannot read properties of null (reading 'message')">>))
    ELSE outcome

\* the routing service is called as soon as origin and destination are
\* present, before their coordinates are validated
RenderEventsRoutingFirst(request, env) ==
  IF \/ ~env.apiKey
     \/ ~env.dependencies
     \/ HasOrigin(request) # HasDestination(request)
     \/ (~IsRoutePlanningMode(request) /\ ~HasContent(request))
     \/ (~IsRoutePlanningMode(request) /\ DirectRoutesThrow(request.routes))
    THEN <<"settle">>
  ELSE IF InvalidEndpoints(request) THEN <<"routing", "settle">>
  ELSE (IF IsRoutePlanningMode(request) THEN <<"routing">> ELSE <<>>)
       \o MapLibreEvents(Viewport(MapLibreOptions(request, env)), env)
\* what renderDynamicMap does, in order: the call of the routing service
\* ("routing"), then what renderMapWithMapLibre does
RenderEvents(request, env) ==
  IF \/ ~env.apiKey
     \/ ~env.dependencies
     \/ HasOrigin(request) # HasDestination(request)
     \/ (~IsRoutePlanningMode(request) /\ ~HasContent(request))
     \/ (IsRoutePlanningMode(request) /\ InvalidEndpoints(request))
     \/ (~IsRoutePlanningMode(request) /\ DirectRoutesThrow(request.routes))
    THEN <<"settle">>
    ELSE (IF IsRoutePlanningMode(request) THEN <<"routing">> ELSE <<>>)
         \o MapLibreEvents(Viewport(MapLibreOptions(request, env)), env)

\* renderDynamicMap(options): validateApiKey() throws before the try block
renderDynamicMap(request, env) ==
  IF ~env.apiKey
    THEN Rejected(ErrorValue(ApiKeyNotSet))
    ELSE Rethrow(TryRenderDynamicMap(request, env))

(***************************************************************************)
(* The arrays of a call of renderDynamicMap. memory.heap gives the         *)
(* elements of the array at each address, memory.refs the address each     *)
(* local variable refers to. The caller owns the options object (its       *)
(* fields origin, destination, bbox, width and height, at "options"), its  *)
(* markers, routes and polygons arrays, and the coordinates array of its   *)
(* polygon; an array the call creates lies at the address named after the  *)
(* variable it is assigned to.                                             *)
(***************************************************************************)
CallerAddresses ==
  {"options", "options.markers", "options.routes", "options.polygons",
   "options.polygons[0].coordinates"}
LocalVariables == {"finalOptions", "markers", "polygons", "coords", "sortedMarkers"}

\* what the caller's arrays hold when the call is made
CallerData(request) ==
  [a \in CallerAddresses |->
     CASE a = "options" ->
            <<request.origin, request.destination, request.bbox, request.width,
              request.height>>
       [] a = "options.markers" -> request.markers
       [] a = "options.routes" -> request.routes
       [] a = "options.polygons" -> request.polygons
       [] OTHER -> IF request.polygons = <<>> THEN <<>>
                   ELSE request.polygons[1].coordinates]

Memory(request) ==
  [heap |-> [a \in CallerAddresses \cup LocalVariables |->
               IF a \in CallerAddresses THEN CallerData(request)[a] ELSE <<>>],
   refs |-> [v \in LocalVariables |-> "undefined"]]

\* variable = from: the variable refers to the array at from itself
SpreadAliases(memory, variable, from) ==
  [heap |-> memory.heap, refs |-> [memory.refs EXCEPT ![variable] = from]]
\* variable = [...from], and { ...from } for the options object: a new array
\* with the elements of the array at from (lines 868, 873, 898, 382, 476)
Spread(memory, variable, from) ==
  [heap |-> [memory.heap EXCEPT ![variable] = memory.heap[from]],
   refs |-> [memory.refs EXCEPT ![variable] = variable]]

\* variable.push(...elements)
PushOnto(memory, variable, elements) ==
  [memory EXCEPT !.heap[memory.refs[variable]] = @ \o elements]

\* lines 475-479: priorityOrder[marker.priority] ?? 2; a marker of the model
\* carries no priority, as markerSchema has none
PriorityOf(marker) == 2

\* Array.prototype.sort with the comparator of lines 476-480: a stable sort
RECURSIVE InsertByPriority(_, _)
InsertByPriority(sorted, marker) ==
  IF sorted = <<>> THEN <<marker>>
  ELSE IF PriorityOf(sorted[Len(sorted)]) <= PriorityOf(marker)
    THEN Append(sorted, marker)
  ELSE Append(InsertByPriority(SubSeq(sorted, 1, Len(sorted) - 1), marker),
              sorted[Len(sorted)])
RECURSIVE SortByPriority(_)
SortByPriority(markers) ==
  IF markers = <<>> THEN <<>>
  ELSE InsertByPriority(SortByPriority(SubSeq(markers, 1, Len(markers) - 1)),
                        markers[Len(markers)])

\* variable.sort(...): the array is sorted in place
SortInPlace(memory, variable) ==
  [memory EXCEPT !.heap[memory.refs[variable]] = SortByPriority(@)]

\* the direct routes processed before one throws
RECURSIVE RoutesBeforeThrow(_)
RoutesBeforeThrow(routes) ==
  IF routes = <<>> \/ DirectRoutesThrow(<<Head(routes)>>) THEN <<>>
  ELSE <<Head(routes)>> \o RoutesBeforeThrow(Tail(routes))

\* lines 876-921: the call throws before a marker is pushed
RejectedEarly(request, env) ==
  \/ ~env.apiKey
  \/ ~env.dependencies
  \/ HasOrigin(request) # HasDestination(request)
  \/ (~IsRoutePlanningMode(request) /\ ~HasContent(request))
  \/ (IsRoutePlanningMode(request) /\ InvalidEndpoints(request))

\* lines 927-954 and 1011-1027: the markers the call pushes
PushedMarkers(request, env) ==
  IF RejectedEarly(request, env) THEN <<>>
  ELSE IF IsRoutePlanningMode(request) THEN PlanningMarkers(request)
  ELSE SubSeq(MarkersAfterRoutes(request.markers, RoutesBeforeThrow(request.routes)),
              Len(request.markers) + 1,
              Len(MarkersAfterRoutes(request.markers,
                                     RoutesBeforeThrow(request.routes))))

\* lines 868-1034: finalOptions, the markers and polygons arrays of
\* renderDynamicMap and the markers pushed onto markers
MemoryBeforeRender(request, env) ==
  IF ~env.apiKey \/ ~env.dependencies THEN Memory(request)
  ELSE PushOnto(Spread(Spread(Spread(Memory(request), "finalOptions", "options"),
                              "markers", "options.markers"),
                       "polygons", "options.polygons"),
                "markers", PushedMarkers(request, env))

\* lines 381-386: firstPoint and lastPoint of coords differ, and the ring
\* is closed with a push onto coords
CloseCoords(memory) ==
  IF Head(memory.heap[memory.refs["coords"]])
       # memory.heap[memory.refs["coords"]][Len(memory.heap[memory.refs["coords"]])]
    THEN PushOnto(memory, "coords", <<Head(memory.heap[memory.refs["coords"]])>>)
    ELSE memory

\* lines 370-386: coords = [...polygon.coordinates] for a polygon of at least
\* 3 coordinates of the array at variable polygons (the copies of the arrays
\* are shallow: the polygon is the caller's)
CloseRing(memory) ==
  IF /\ memory.heap[memory.refs["polygons"]] # <<>>
     /\ ~DrawnAsCircle(memory.heap[memory.refs["polygons"]][1])
     /\ Len(memory.heap["options.polygons[0].coordinates"]) >= 3
    THEN CloseCoords(Spread(memory, "coords", "options.polygons[0].coordinates"))
    ELSE memory

\* lines 472-480: sortedMarkers = [...markers].sort(...)
SortMarkers(memory) ==
  IF memory.heap[memory.refs["markers"]] # <<>>
    THEN SortInPlace(Spread(memory, "sortedMarkers", memory.refs["markers"]),
                     "sortedMarkers")
    ELSE memory

\* the arrays when the call of renderDynamicMap has settled: lines 315-480
\* run when the native map was constructed and loaded
MemoryAfter(request, env) ==
  IF /\ \E i \in 1..Len(RenderEvents(request, env)) :
          RenderEvents(request, env)[i] = "construct"
     /\ env.load = "ok"
    THEN SortMarkers(CloseRing(MemoryBeforeRender(request, env)))
    ELSE MemoryBeforeRender(request, env)

\* what the promise of the handler settles with: resolved with a tool
\* result, or rejected with value
ToolImage(data, mimeType) ==
  [settled |-> "resolve", value |-> NoValue, isError |-> FALSE, type |-> "image",
   data |-> data, mimeType |-> mimeType, text |-> <<>>]
ToolError(text) ==
  [settled |-> "resolve", value |-> NoValue, isError |-> TRUE, type |-> "text",
   data |-> <<>>, mimeType |-> "", text |-> text]
HandlerRejected(value) ==
  [settled |-> "reject", value |-> value, isError |-> FALSE, type |-> "",
   data |-> <<>>, mimeType |-> "", text |-> <<>>]

\* dynamicMapHandler.ts:45-86: the catch block, error being the value
\* renderDynamicMap rejected with
HandlerCatch(error) ==
  \* line 49: error.message is undefined, undefined.includes throws
  IF ~HasMessage(error)
    THEN HandlerRejected(TypeErrorValue(<<"Cannot read properties of undefined (reading 'includes')">>))
  ELSE IF Includes(error.message, <<"Dynamic map dependencies not available">>)
    THEN ToolError(StringifyErrorAndHelp(error.message, HelpMessage))
  ELSE ToolError(StringifyError(error.message))

\* dynamicMapHandler.ts:24-88: the handler, given how renderDynamicMap settled
HandlerResult(rendered) ==
  IF rendered.settled = "resolve"
    THEN ToolImage(rendered.base64, rendered.contentType)
    ELSE HandlerCatch(rendered.value)

\* the index of the first point of a route that makes extractCoordinates
\* throw, Len + 1 when none does
FirstNullPoint(points) ==
  IF \E i \in 1..Len(points) : points[i].shape = "null"
    THEN CHOOSE i \in 1..Len(points) :
           /\ points[i].shape = "null"
           /\ \A j \in 1..(i - 1) : points[j].shape # "null"
    ELSE Len(points) + 1

\* the logger.warn calls of extractCoordinates over the direct routes, lines
\* 988-991, up to the point that throws
RECURSIVE DirectRouteWarnings(_)
DirectRouteWarnings(routes) ==
  IF routes = <<>> THEN 0
  ELSE IF Len(DirectRoutePoints(Head(routes))) <= 1
    THEN DirectRouteWarnings(Tail(routes))
  ELSE IF FirstNullPoint(DirectRoutePoints(Head(routes))) <= Len(DirectRoutePoints(Head(routes)))
    THEN WarningsFor(SubSeq(DirectRoutePoints(Head(routes)), 1,
                            FirstNullPoint(DirectRoutePoints(Head(routes))) - 1))
  ELSE WarningsFor(DirectRoutePoints(Head(routes))) + DirectRouteWarnings(Tail(routes))

\* the logger.warn calls that extractCoordinates and the choice of the
\* viewport make during renderDynamicMap
RenderWarnings(request, env) ==
  IF \/ ~env.apiKey
     \/ ~env.dependencies
     \/ HasOrigin(request) # HasDestination(request)
     \/ (~IsRoutePlanningMode(request) /\ ~HasContent(request))
    THEN 0
  ELSE IF IsRoutePlanningMode(request) /\ InvalidEndpoints(request)
    THEN extractCoordinates(request.origin).warned
         + extractCoordinates(request.destination).warned
  ELSE IF ~IsRoutePlanningMode(request) /\ DirectRoutesThrow(request.routes)
    THEN DirectRouteWarnings(request.routes)
  ELSE (IF IsRoutePlanningMode(request) THEN 0 ELSE DirectRouteWarnings(request.routes))
       + ViewportWarnings(MapLibreOptions(request, env))

(***************************************************************************)
(* Inputs of the model.                                                    *)
(***************************************************************************)
MaxMarkers == 4
MaxRoutes == 1
MaxPolygons == 1
MaxBboxMarkers == 1

RECURSIVE SeqsUpTo(_, _)
SeqsUpTo(S, n) ==
  IF n = 0 THEN {<<>>}
  ELSE LET shorter == SeqsUpTo(S, n - 1)
       IN shorter \cup {Append(s, x) : s \in {t \in shorter : Len(t) = n - 1}, x \in S}

Amsterdam == LatLon(Milli(52370), Milli(4890))
NearAmsterdam == LatLon(Milli(52375), Milli(4890))
Corner == LatLon(Deg(90), Deg(180))
OutOfRange == LatLon(Deg(200), Milli(4890))

MarkerItems == {Amsterdam, NearAmsterdam, Corner, OutOfRange}

RouteCatalogue ==
  { Route("array", <<Item("array", <<Num(Milli(52370)), Num(Milli(4890))>>),
                     Item("array", <<Num(Milli(52400)), Num(Milli(4890))>>)>>),
    Route("points", <<LatLon(Milli(52370), Milli(4895)),
                      Item("coordinates", <<Num(Deg(95)), Num(Milli(4890))>>)>>),
    Route("points", <<Item("coordinates", <<Num(Milli(52370))>>)>>),
    Route("none", <<>>) }

PolygonCatalogue ==
  { Polygon(<< <<Milli(4890), Milli(52370)>>, <<Milli(4900), Milli(52370)>>,
               <<Milli(4890), Milli(52380)>> >>),
    Polygon(<< <<Deg(0), Deg(95)>>, <<Deg(1), Deg(95)>>, <<Deg(1), Deg(96)>> >>),
    Polygon(<< <<Milli(4890), Milli(52370)>>, <<Milli(4900)>>,
               <<Milli(4890), Milli(52380)>> >>),
    Circle(Milli(52370), Milli(4890), Metres(20000)),
    Circle(0, Milli(179900), Metres(20000)),
    CircleWithoutType(Milli(52370), Milli(4890), Metres(20000)) }

\* width and height: the schema accepts 100..2048
CanvasSizes == {<<800, 600>>, <<100, 160>>}

ItemValues ==
  { Num(Deg(-90)), Num(Deg(90)), Num(Deg(-180)), Num(Deg(180)), Num(Milli(52370)),
    Num(Milli(90005)), Num(Milli(-180005)), NumStr(Milli(4890)), BadStr,
    Undefined, JsNull }

Items ==
  {Item(shape, <<a, b>>) : shape \in {"array", "coordinates", "latlon"},
                           a \in ItemValues, b \in ItemValues}
  \cup {Item(shape, <<a>>) : shape \in {"array", "coordinates"}, a \in ItemValues}
  \cup {Item("other", <<>>), Item("null", <<>>)}

ZoomLats == {Deg(-90), 0, Milli(5), Milli(52370), Milli(52380), Deg(90)}
ZoomLons == {Deg(-180), 0, Milli(5), Milli(4890), Deg(180)}
ZoomWidths == {100, 160, 161, 800, 2048}
ZoomHeights == {100, 160, 600, 2048}

BboxLons == {Num(Deg(-180)), Num(Milli(4850)), Num(Milli(4950)), Num(Deg(180)),
             Num(Deg(200))}
BboxLats == {Num(Deg(-90)), Num(Milli(52350)), Num(Milli(52400)), Num(Deg(90)), BadStr}
BboxInputs ==
  {<<w, s, e, n>> : w \in BboxLons, s \in BboxLats, e \in BboxLons, n \in BboxLats}
  \cup {<<>>, <<Num(Milli(4850)), Num(Milli(52350)), Num(Milli(4950))>>}

\* origin and destination of a request
Endpoints == {Absent, Amsterdam, OutOfRange}
RequestMarkers == {<<>>, <<NearAmsterdam>>}
\* a round trip, a route that starts at the marker of RequestMarkers, and a
\* route to the north
LoopRoute ==
  Route("points", <<Amsterdam, LatLon(Milli(52400), Milli(4890)), Amsterdam>>)
FromMarkerRoute ==
  Route("array", <<NearAmsterdam, LatLon(Milli(52400), Milli(4890))>>)
NorthRoute ==
  Route("array", <<Item("array", <<Num(Milli(52370)), Num(Milli(4890))>>),
                   Item("array", <<Num(Milli(52400)), Num(Milli(4890))>>)>>)
RequestRoutes ==
  {<<>>, <<NorthRoute, FromMarkerRoute>>}
  \cup {<<r>> : r \in RouteCatalogue \cup {LoopRoute, FromMarkerRoute}}
\* a triangle whose ring is not closed, and one whose ring is
RequestPolygons ==
  {<<>>,
   <<Polygon(<< <<Milli(4890), Milli(52370)>>, <<Milli(4900), Milli(52370)>>,
                <<Milli(4890), Milli(52380)>> >>)>>,
   <<Polygon(<< <<Milli(4890), Milli(52370)>>, <<Milli(4900), Milli(52370)>>,
                <<Milli(4890), Milli(52380)>>, <<Milli(4890), Milli(52370)>> >>)>>}
RequestBboxes ==
  {<<>>, <<Num(Milli(4850)), Num(Milli(52350)), Num(Milli(4950)), Num(Milli(52400))>>}

\* requests with origin or destination, and requests with direct routes or
\* polygons
PlanningRequests ==
  {Request(origin, destination, markers, <<>>, <<>>, bbox, 800, 600) :
     origin \in Endpoints, destination \in Endpoints, markers \in RequestMarkers,
     bbox \in RequestBboxes}
DirectRequests ==
  {Request(Absent, Absent, markers, routes, polygons, <<>>, 800, 600) :
     markers \in RequestMarkers, routes \in RequestRoutes,
     polygons \in RequestPolygons}
Requests == PlanningRequests \cup DirectRequests

\* what the request for the style can reject with: an Error of the HTTP
\* client, an Error whose message quotes the body it could not parse, an
\* object that is not an Error ({ response: { status: 401, data: ... } }),
\* null
ConnectionRefused == ErrorValue(<<"connect ECONNREFUSED 127.0.0.1:443">>)
UnexpectedToken ==
  ErrorValue(<<"Unexpected token '<', ", DoubleQuote, "<html>", DoubleQuote,
               " is not valid JSON">>)
StyleOutcomes ==
  {StyleDocument, NoStyleDocument, ConnectionRefused, UnexpectedToken, PlainObject,
   NullValue}

\* load and render are "ok" and "image" when the call cannot come to them
Environments ==
  {env \in [apiKey : BOOLEAN, dependencies : BOOLEAN, routing : {"route", "fails"},
            style : StyleOutcomes, load : {"ok", "throws"},
            render : {"image", "error", "no buffer", "conversion fails", "throws"}] :
     /\ env.style # StyleDocument => (env.load = "ok" /\ env.render = "image")
     /\ env.load = "throws" => env.render = "image"}

\* the module before it is loaded
NotLoaded ==
  [loaded |-> FALSE, enabled |-> FALSE, installed |-> FALSE, imports |-> "none",
   mbgl |-> FALSE, createCanvas |-> FALSE]

NoRequest == Request(Absent, Absent, <<>>, <<>>, <<>>, <<>>, 0, 0)
NoEnvironment ==
  [apiKey |-> FALSE, dependencies |-> FALSE, routing |-> "fails",
   style |-> NoStyleDocument, load |-> "ok", render |-> "error"]
NoHandled ==
  [request |-> NoRequest, env |-> NoEnvironment, rendered |-> Rejected(NoValue),
   result |-> HandlerRejected(NoValue), events |-> <<>>,
   memory |-> Memory(NoRequest).heap]

\* the calls of generateCirclePoints: center, radius in millimetres
CircleCalls ==
  { <<Milli(52370), Milli(4890), Metres(20000)>>,
    <<0, Milli(179900), Metres(20000)>>,
    <<Deg(90), 0, 10>> }
\* numPoints
SegmentCounts == {0, 1, 2, 4, 8, 16, 32, 64}

CircleCall(centerLat, centerLon, radiusMeters, numPoints) ==
  [centerLat |-> centerLat, centerLon |-> centerLon, radiusMeters |-> radiusMeters,
   numPoints |-> numPoints,
   points |-> generateCirclePoints(centerLat, centerLon, radiusMeters, numPoints)]
NoCircle == [centerLat |-> 0, centerLon |-> 0, radiusMeters |-> 0, numPoints |-> 0,
             points |-> <<>>]

NoOptions == Options(<<>>, 0, 0, <<>>, <<>>, <<>>)
NoItem == Item("other", <<>>)
NoZoomArgs == [bounds |-> NoBounds, mapWidth |-> 0, mapHeight |-> 0]
NoSecond == [made |-> FALSE, options |-> NoOptions, viewport |-> Thrown("")]

\* the request of another caller
OtherRequest == Options(<<>>, 800, 600, <<Amsterdam, NearAmsterdam>>, <<>>, <<>>)

(***************************************************************************)
(* The state: the call that was made and what it returned.                 *)
(*   called    the function that was called, "none" before any call        *)
(*   item      the argument of extractCoordinates                          *)
(*   extracted what extractCoordinates returned                            *)
(*   zoomArgs  the arguments of calculateOptimalZoom                       *)
(*   zoom      what calculateOptimalZoom returned                          *)
(*   options   the arguments of calculateEnhancedBounds, or the options    *)
(*             of renderMapWithMapLibre                                    *)
(*   viewport  bounds, center and zoom, or the error thrown                *)
(*   sink      the number of entries that extractCoordinates and the       *)
(*             choice of the viewport wrote with logger.warn in the call   *)
(*   second    a further call of calculateEnhancedBounds made after the    *)
(*             first: whether it was made, its arguments, what it returned *)
(*   handled   a call of the handler of the tool: the request, what the    *)
(*             world outside did, how renderDynamicMap settled, how the    *)
(*             handler settled, and what renderDynamicMap did, in order    *)
(*   circle    the arguments of generateCirclePoints and what it returned  *)
(*   service   the module dynamicMapService.ts: whether it was loaded,     *)
(*             whether ENABLE_DYNAMIC_MAPS is not "false", whether the     *)
(*             native packages are installed, how far the imports the      *)
(*             module starts when it is loaded have come, and whether      *)
(*             mbgl and createCanvas are set                               *)
(* A behaviour is one direct call of a function of geometryUtils.ts or of  *)
(* the viewport part of renderMapWithMapLibre, none of which reads mbgl or *)
(* createCanvas, or it is the life of the service module: the module is    *)
(* loaded, its imports settle, and the handler is called at some moment.   *)
(***************************************************************************)
VARIABLES called, item, extracted, zoomArgs, zoom, options, viewport, sink, second,
          handled, circle, service

vars == <<called, item, extracted, zoomArgs, zoom, options, viewport, sink, second,
          handled, circle, service>>

Init ==
  /\ called = "none"
  /\ item = NoItem
  /\ extracted = NoPoint
  /\ zoomArgs = NoZoomArgs
  /\ zoom = XNaN
  /\ options = NoOptions
  /\ viewport = Thrown("")
  /\ sink = 0
  /\ second = NoSecond
  /\ handled = NoHandled
  /\ circle = NoCircle
  /\ service = NotLoaded

\* a direct call extractCoordinates(item, index, type)
ExtractCoordinates ==
  /\ called = "none"
  /\ ~service.loaded
  /\ \E i \in Items :
       /\ item' = i
       /\ extracted' = extractCoordinates(i)
       /\ sink' = extractCoordinates(i).warned
  /\ called' = "extractCoordinates"
  /\ UNCHANGED <<zoomArgs, zoom, options, viewport, second, handled, circle, service>>

\* a direct call calculateOptimalZoom(bounds, mapWidth, mapHeight)
CalculateOptimalZoom ==
  /\ called = "none"
  /\ ~service.loaded
  /\ \E north \in ZoomLats, south \in ZoomLats, east \in ZoomLons, west \in ZoomLons,
        w \in ZoomWidths, h \in ZoomHeights :
       \* a bounds record: north >= south, and no antimeridian wrapping
       /\ north >= south
       /\ east >= west
       /\ zoomArgs' = [bounds |-> Bounds(north, south, east, west),
                       mapWidth |-> w, mapHeight |-> h]
       /\ zoom' = calculateOptimalZoom(Bounds(north, south, east, west), w, h,
                                       DefaultPaddingPixels)
  /\ called' = "calculateOptimalZoom"
  /\ UNCHANGED <<item, extracted, options, viewport, sink, second, handled, circle, service>>

\* a direct call calculateEnhancedBounds(markers, routes, mapWidth, mapHeight,
\* polygons)
CalculateEnhancedBounds ==
  /\ called = "none"
  /\ ~service.loaded
  /\ \E markers \in SeqsUpTo(MarkerItems, MaxMarkers),
        routes \in SeqsUpTo(RouteCatalogue, MaxRoutes),
        polygons \in SeqsUpTo(PolygonCatalogue, MaxPolygons),
        size \in CanvasSizes :
       /\ options' = Options(<<>>, size[1], size[2], markers, routes, polygons)
       /\ viewport' = calculateEnhancedBounds(markers, routes, size[1], size[2], polygons)
       /\ sink' = CollectWarnings(markers, routes, polygons)
  /\ called' = "calculateEnhancedBounds"
  /\ UNCHANGED <<item, extracted, zoomArgs, zoom, second, handled, circle, service>>

\* renderMapWithMapLibre(options) up to the choice of the viewport
RenderViewport ==
  /\ called = "none"
  /\ ~service.loaded
  /\ \E bbox \in BboxInputs,
        markers \in SeqsUpTo(MarkerItems, MaxBboxMarkers),
        polygons \in SeqsUpTo(PolygonCatalogue, MaxPolygons),
        size \in CanvasSizes :
       LET o == Options(bbox, size[1], size[2], markers, <<>>, polygons)
       IN /\ options' = o
          /\ viewport' = Viewport(o)
          /\ sink' = ViewportWarnings(o)
  /\ called' = "renderMapWithMapLibre"
  /\ UNCHANGED <<item, extracted, zoomArgs, zoom, second, handled, circle, service>>

\* a further call of calculateEnhancedBounds, with the arguments of the first
\* call or with those of another request; the function is synchronous, so
\* two calls never interleave
CalculateEnhancedBoundsAgain ==
  /\ called = "calculateEnhancedBounds"
  /\ ~second.made
  /\ \E o \in {options, OtherRequest} :
       /\ sink' = sink + CollectWarnings(o.markers, o.routes, o.polygons)
       /\ second' = [made |-> TRUE, options |-> o,
                     viewport |-> calculateEnhancedBoundsAfter(
                                    CollectPoints(options.markers, options.routes,
                                                  options.polygons),
                                    o.markers, o.routes, o.width, o.height,
                                    o.polygons)]
  /\ UNCHANGED <<called, item, extracted, zoomArgs, zoom, options, viewport, handled,
                 circle, service>>

\* a call of the handler of the tool: createDynamicMapHandler()(params)
HandleDynamicMap ==
  /\ called = "none"
  /\ service.loaded
  /\ \E request \in Requests, env \in Environments :
       \* line 863: !mbgl || !createCanvas, read when the call is made
       /\ env.dependencies = (service.mbgl /\ service.createCanvas)
       /\ handled' = [request |-> request, env |-> env,
                      rendered |-> renderDynamicMap(request, env),
                      result |-> HandlerResult(renderDynamicMap(request, env)),
                      events |-> RenderEvents(request, env),
                      memory |-> MemoryAfter(request, env).heap]
       /\ sink' = RenderWarnings(request, env)
  /\ called' = "createDynamicMapHandler"
  /\ UNCHANGED <<item, extracted, zoomArgs, zoom, options, viewport, second, circle,
                 service>>

\* a direct call generateCirclePoints(centerLat, centerLon, radiusMeters,
\* numPoints)
GenerateCirclePoints ==
  /\ called = "none"
  /\ ~service.loaded
  /\ \E c \in CircleCalls, n \in SegmentCounts :
       circle' = CircleCall(c[1], c[2], c[3], n)
  /\ called' = "generateCirclePoints"
  /\ UNCHANGED <<item, extracted, zoomArgs, zoom, options, viewport, sink, second,
                 handled, service>>

\* the module is loaded: lines 27-72 run, and when ENABLE_DYNAMIC_MAPS is not
\* "false" the two imports are started and not awaited
LoadService ==
  /\ called = "none"
  /\ ~service.loaded
  /\ \E enabled \in BOOLEAN, installed \in BOOLEAN :
       service' = [loaded |-> TRUE, enabled |-> enabled, installed |-> installed,
                   imports |-> IF enabled THEN "pending" ELSE "none",
                   mbgl |-> FALSE, createCanvas |-> FALSE]
  /\ UNCHANGED <<called, item, extracted, zoomArgs, zoom, options, viewport, sink,
                 second, handled, circle>>

\* lines 56-65: Promise.all([...]).then(...) runs, some time after the module
\* was loaded: mbgl and createCanvas are set when the packages are installed
SettleImports ==
  /\ service.imports = "pending"
  /\ service' = [service EXCEPT !.imports = "settled",
                                !.mbgl = service.installed,
                                !.createCanvas = service.installed]
  /\ UNCHANGED <<called, item, extracted, zoomArgs, zoom, options, viewport, sink,
                 second, handled, circle>>

Next ==
  \/ ExtractCoordinates
  \/ CalculateOptimalZoom
  \/ CalculateEnhancedBounds
  \/ RenderViewport
  \/ CalculateEnhancedBoundsAgain
  \/ HandleDynamicMap
  \/ GenerateCirclePoints
  \/ LoadService
  \/ SettleImports

Spec == Init /\ [][Next]_vars

(***************************************************************************)
(* Properties.                                                             *)
(***************************************************************************)
IsNumber(x) == x.k \in {"whole", "log2", "log2-half"}

\* what the documentation asks of a coordinate pair, stated on the values
InRangeLatitude(value) ==
  /\ value.t \in {"number", "numeric string"}
  /\ Deg(-90) <= value.v
  /\ value.v <= Deg(90)
InRangeLongitude(value) ==
  /\ value.t \in {"number", "numeric string"}
  /\ Deg(-180) <= value.v
  /\ value.v <= Deg(180)
\* the item has one of the three accepted shapes and carries an in-range pair
ValidItem(i) ==
  /\ i.shape \in {"array", "coordinates", "latlon"}
  /\ Len(i.vals) >= 2
  /\ InRangeLatitude(i.vals[1])
  /\ InRangeLongitude(i.vals[2])

ReturnedViewport ==
  /\ called \in {"calculateEnhancedBounds", "renderMapWithMapLibre"}
  /\ viewport.status = "ok"

\* the points calculateEnhancedBounds collected in the call of this state
Collected == CollectPoints(options.markers, options.routes, options.polygons)

\* C1: for every bounds record and every canvas size the schema accepts,
\* calculateOptimalZoom returns a number z with 1 <= z <= 17, never NaN or
\* an infinite value.
C1_ZoomWithinRange ==
  called = "calculateOptimalZoom" =>
    /\ IsNumber(zoom)
    /\ ~XLess(zoom, MinZoom)
    /\ ~XGreater(zoom, MaxZoom)

\* C2: for a single valid marker with no routes and no polygons the returned
\* bounds strictly surround the marker: north > south and east > west.
C2_SingleMarkerSurrounded ==
  ( /\ called = "calculateEnhancedBounds"
    /\ Len(options.markers) = 1
    /\ ValidItem(options.markers[1])
    /\ options.routes = <<>>
    /\ options.polygons = <<>> )
  => /\ viewport.status = "ok"
     /\ viewport.bounds.north > viewport.bounds.south
     /\ viewport.bounds.east > viewport.bounds.west

\* C3: the returned bounds contain the raw bounding box of the collected
\* points, and the raw box contains every collected point.
C3_BoundsContainRaw ==
  (called = "calculateEnhancedBounds" /\ viewport.status = "ok") =>
    LET raw == RawBounds(Collected) IN
    /\ viewport.bounds.north >= raw.north
    /\ viewport.bounds.south <= raw.south
    /\ viewport.bounds.east >= raw.east
    /\ viewport.bounds.west <= raw.west
    /\ \A i \in 1..Len(Collected) :
         /\ raw.south <= Collected[i].lat
         /\ Collected[i].lat <= raw.north
         /\ raw.west <= Collected[i].lon
         /\ Collected[i].lon <= raw.east

\* C4: every bounds record calculateEnhancedBounds returns is well formed:
\* south <= north, west <= east, all four within the legal range.
C4_BoundsWellFormed ==
  (called = "calculateEnhancedBounds" /\ viewport.status = "ok") =>
    /\ viewport.bounds.south <= viewport.bounds.north
    /\ viewport.bounds.west <= viewport.bounds.east
    /\ Deg(-90) <= viewport.bounds.south
    /\ viewport.bounds.north <= Deg(90)
    /\ Deg(-180) <= viewport.bounds.west
    /\ viewport.bounds.east <= Deg(180)

\* a 4-element bbox that fails validation: a component is not a number or
\* is out of range, or west >= east, or south >= north
BboxFailsValidation(bbox) ==
  /\ Len(bbox) = 4
  /\ \/ ~InRangeLongitude(bbox[1])
     \/ ~InRangeLatitude(bbox[2])
     \/ ~InRangeLongitude(bbox[3])
     \/ ~InRangeLatitude(bbox[4])
     \/ bbox[1].v >= bbox[3].v
     \/ bbox[2].v >= bbox[4].v

BboxErrors ==
  {InvalidBounds, "Invalid coordinate", "Latitude out of range [-90, 90]",
   "Longitude out of range [-180, 180]"}

BboxValid(bbox) ==
  /\ Len(bbox) = 4
  /\ ~BboxFailsValidation(bbox)

\* the extent of the valid markers of the call of this state
MarkerExtent == RawBounds(MarkerPoints(options.markers))

\* the extent a valid bbox describes
BboxExtent(bbox) == Bounds(bbox[4].v, bbox[2].v, bbox[3].v, bbox[1].v)

StrictlyContains(outer, inner) ==
  /\ outer.north > inner.north
  /\ outer.south < inner.south
  /\ outer.east > inner.east
  /\ outer.west < inner.west

\* every side lies strictly beyond the extent, except a side of the extent
\* that is already at the legal limit, which stays at the limit
ContainsUpToLimits(outer, inner) ==
  /\ IF inner.north = Deg(90) THEN outer.north = Deg(90) ELSE outer.north > inner.north
  /\ IF inner.south = Deg(-90) THEN outer.south = Deg(-90) ELSE outer.south < inner.south
  /\ IF inner.east = Deg(180) THEN outer.east = Deg(180) ELSE outer.east > inner.east
  /\ IF inner.west = Deg(-180) THEN outer.west = Deg(-180) ELSE outer.west < inner.west

ValidBboxRequest ==
  /\ called = "renderMapWithMapLibre"
  /\ BboxValid(options.bbox)

TwoOrMoreValidMarkers ==
  /\ called = "calculateEnhancedBounds"
  /\ Len(options.markers) >= 2
  /\ \A i \in 1..Len(options.markers) : ValidItem(options.markers[i])

\* C6 as claimed: for every valid explicit bbox, and for every set of two or
\* more valid markers, the returned bounds strictly contain the input extent
\* on all four sides.
C6_PaddingNeverZero ==
  /\ ValidBboxRequest =>
       /\ viewport.status = "ok"
       /\ StrictlyContains(viewport.bounds, BboxExtent(options.bbox))
  /\ TwoOrMoreValidMarkers =>
       /\ viewport.status = "ok"
       /\ StrictlyContains(viewport.bounds, MarkerExtent)

\* C6 as amended: the returned bounds lie strictly beyond the input extent on
\* every side on which the extent is inside the legal range; a side of the
\* extent that is at the legal limit (north 90, south -90, east 180,
\* west -180) is returned at that limit, with no padding.
C6_PaddingUpToLimits ==
  /\ ValidBboxRequest =>
       /\ viewport.status = "ok"
       /\ ContainsUpToLimits(viewport.bounds, BboxExtent(options.bbox))
  /\ TwoOrMoreValidMarkers =>
       /\ viewport.status = "ok"
       /\ ContainsUpToLimits(viewport.bounds, MarkerExtent)

C6_Witness ==
  /\ ValidBboxRequest
  /\ options.bbox = <<Num(Milli(4850)), Num(Milli(52350)), Num(Deg(180)), Num(Deg(90))>>
  /\ viewport.status = "ok"
  /\ viewport.bounds.north = Deg(90)
  /\ viewport.bounds.east = Deg(180)
  /\ viewport.bounds.south < Milli(52350)
  /\ viewport.bounds.west < Milli(4850)

\* no marker, route point, polygon vertex or circle of the call yields a point
NothingToCollect ==
  /\ \A i \in 1..Len(options.markers) : ~ValidItem(options.markers[i])
  /\ \A r \in 1..Len(options.routes) :
       \/ options.routes[r].form = "none"
       \/ \A i \in 1..Len(options.routes[r].points) :
            ~ValidItem(options.routes[r].points[i])
  /\ \A g \in 1..Len(options.polygons) :
       /\ \A i \in 1..Len(options.polygons[g].coordinates) :
            Len(options.polygons[g].coordinates[i]) < 2
       /\ ~( /\ options.polygons[g].type = "circle"
             /\ options.polygons[g].center.present
             /\ options.polygons[g].radius > 0 )

C8_ExtractNeverRaises ==
  called = "extractCoordinates" =>
    /\ extracted.kind \in {"null", "point"}
    /\ extracted.kind = "point" <=> ValidItem(item)
    /\ extracted.kind = "point" =>
         /\ extracted.lat = item.vals[1].v
         /\ extracted.lon = item.vals[2].v

\* C9: the center returned is the arithmetic midpoint of the returned
\* bounds, longitude first: center = [(west + east) / 2, (south + north) / 2]
\* (both sides doubled: center is kept in halves of a micro-degree).
C9_CenterIsMidpoint ==
  ReturnedViewport =>
    /\ Len(viewport.center) = 2
    /\ viewport.center[1] = viewport.bounds.west + viewport.bounds.east
    /\ viewport.center[2] = viewport.bounds.south + viewport.bounds.north

C9_Witness ==
  /\ called = "calculateEnhancedBounds"
  /\ options.markers = <<Amsterdam, Corner>>
  /\ options.routes = <<>>
  /\ options.polygons = <<>>
  /\ viewport.status = "ok"
  /\ viewport.bounds.north = Deg(90)
  /\ viewport.bounds.east = Deg(180)
  /\ viewport.center[1] = viewport.bounds.west + Deg(180)
  /\ viewport.center[1] # viewport.center[2]

\* the arguments the padding heuristic looks at, in the call of this state
RawSpan ==
  LET raw == RawBounds(Collected)
  IN Max(raw.north - raw.south, raw.east - raw.west)
MarkerCount == Len(options.markers)
HasRoutes == Len(options.routes) > 0
HasPolygons == Len(options.polygons) > 0

\* x * factor / 10000 for x a multiple of 0.005 degrees
TimesTenThousandths(x, factor) == ((x \div Milli(5)) * factor) \div 2

\* the padding of the documentation: base span x 0.3 for one marker, else
\* 0.01 degrees below 0.001, span x 0.5 below 0.01, span x 0.25 otherwise;
\* x 1.5 with routes and more than one marker; x 1.2 with more than 3 markers
DocumentedPadding(span, markerCount, hasRoutes) ==
  LET fixed == markerCount # 1 /\ span < Milli(1)
      base == IF markerCount = 1 THEN 30
              ELSE IF span < Milli(1) THEN 100
              ELSE IF span < Milli(10) THEN 50
              ELSE 25
      route == IF hasRoutes /\ markerCount > 1 THEN 15 ELSE 10
      density == IF markerCount > 3 THEN 12 ELSE 10
  IN TimesTenThousandths(IF fixed THEN Milli(10) ELSE span, base * route * density)

\* the padding of the code, in closed form: base span x 0.5 for one marker,
\* else 0.05 degrees below 0.001, span x 0.8 below 0.01, span x 0.6 below
\* 0.1, span x 0.4 otherwise; with routes x 1.8 for more than one marker and
\* x 1.5 otherwise; x 1.3 with polygons; x 1.4 with more than 3 markers; and
\* never less than span x 0.15
ImplementedPadding(span, markerCount, hasRoutes, hasPolygons) ==
  LET fixed == markerCount # 1 /\ span < Milli(1)
      base == IF markerCount = 1 THEN 5
              ELSE IF span < Milli(1) THEN 10
              ELSE IF span < Milli(10) THEN 8
              ELSE IF span < Milli(100) THEN 6
              ELSE 4
      route == IF hasRoutes THEN (IF markerCount > 1 THEN 18 ELSE 15) ELSE 10
      polygon == IF hasPolygons THEN 13 ELSE 10
      density == IF markerCount > 3 THEN 14 ELSE 10
      scaled == TimesTenThousandths(IF fixed THEN Milli(50) ELSE span,
                                    base * route * polygon * density)
  IN Max(scaled, TimesTenThousandths(span, 1500))

\* the bounds that result from adding padding to every side of the raw
\* bounds and clamping to the legal range
PaddedBy(padding) ==
  LET raw == RawBounds(Collected)
  IN Bounds(Min(Deg(90), raw.north + padding), Max(Deg(-90), raw.south - padding),
            Min(Deg(180), raw.east + padding), Max(Deg(-180), raw.west - padding))

DuplicatedMarker ==
  /\ called = "calculateEnhancedBounds"
  /\ Len(options.markers) >= 4
  /\ \A i \in 1..Len(options.markers) : options.markers[i] = options.markers[1]
  /\ viewport.status = "ok"

\* the padding of the call with the marker once, same routes and polygons
SingleMarkerPadding == BufferFor(<<options.markers[1]>>, options.routes, options.polygons)

\* C11: with the same routes and polygons (hence the same span), a markers
\* list that is one marker duplicated four or more times gets padding greater
\* than or equal to the padding of the list with that marker once.
C11_DuplicatesPadAtLeastAsMuch ==
  DuplicatedMarker =>
    /\ RawBounds(CollectPoints(<<options.markers[1]>>, options.routes, options.polygons))
         = RawBounds(Collected)
    /\ BufferFor(options.markers, options.routes, options.polygons) >= SingleMarkerPadding

C11_Witness ==
  /\ DuplicatedMarker
  /\ options.markers[1] = Corner
  /\ HasRoutes
  /\ RawSpan >= Milli(100)
  /\ BufferFor(options.markers, options.routes, options.polygons) > SingleMarkerPadding
  /\ SingleMarkerPadding > 0

\* the arguments of the calculateOptimalZoom call of this state
ZoomLatSpan == zoomArgs.bounds.north - zoomArgs.bounds.south
ZoomLngSpan == zoomArgs.bounds.east - zoomArgs.bounds.west
EffectiveWidth == zoomArgs.mapWidth - 2 * DefaultPaddingPixels
EffectiveHeight == zoomArgs.mapHeight - 2 * DefaultPaddingPixels

\* 2^z <= c, for z a whole number and for z = log2(p/q) - 0.5 or log2(p/q),
\* and c = a/b in lowest terms: the second case is (p/q) / (a/b) <= sqrt(2),
\* on the quotient in lowest terms
TwoToThe(z, c) ==
  CASE z.k = "whole" -> ~RatLess(c.p, c.q, 2^(z.n), 1)
    [] z.k = "log2" -> ~RatLess(c.p, c.q, z.p, z.q)
    [] z.k = "log2-half" ->
         ~AboveSqrt2((z.p \div GCD(z.p, c.p)) * (c.q \div GCD(z.q, c.q)),
                     (z.q \div GCD(z.q, c.q)) * (c.p \div GCD(z.p, c.p)))
    [] OTHER -> FALSE

\* span * worldPx * 2^z / 360 <= effective, for span > 0 and effective > 0
FitsAxis(z, effective, span, worldPx) ==
  LET quotient == ZoomQuotient(effective, span, worldPx)
  IN TwoToThe(z, XLog2(quotient.num, quotient.den))

PositiveSpansAndCanvas ==
  /\ called = "calculateOptimalZoom"
  /\ ZoomLatSpan > 0
  /\ ZoomLngSpan > 0
  /\ EffectiveWidth > 0
  /\ EffectiveHeight > 0

\* C12: for bounds with positive spans and a canvas with positive effective
\* size, whenever the returned zoom z is greater than 1 the box fits:
\* lonSpan * 256 * 2^z / 360 <= width - 160 and
\* latSpan * 256 * 2^z / 360 <= height - 160.
C12_ZoomFitsCanvas ==
  (PositiveSpansAndCanvas /\ XGreater(zoom, MinZoom)) =>
    /\ FitsAxis(zoom, EffectiveWidth, ZoomLngSpan, WORLD_PX_WIDTH)
    /\ FitsAxis(zoom, EffectiveHeight, ZoomLatSpan, WORLD_PX_HEIGHT)

C12_Witness ==
  /\ PositiveSpansAndCanvas
  /\ zoomArgs = [bounds |-> Bounds(Milli(52380), Milli(52370), Milli(4890), 0),
                 mapWidth |-> 800, mapHeight |-> 600]
  /\ zoom.k = "log2-half"
  /\ XGreater(zoom, 7)
  /\ XLess(zoom, 8)
  /\ FitsAxis(zoom, EffectiveWidth, ZoomLngSpan, WORLD_PX_WIDTH)

\* the clamped value obtained from one term alone:
\* Math.max(1, Math.min(17, Math.log2(effective * 360 / (span * 256)) - 0.5))
ZoomFromTermAlone(effective, span, worldPx) ==
  ClampZoom(MinZoom, MaxZoom,
            MinusZoomOutFactor(
              MathLog2Quotient(ZoomQuotient(effective, span, worldPx).num,
                               ZoomQuotient(effective, span, worldPx).den)))

ZeroSpanOnPositiveCanvas ==
  /\ called = "calculateOptimalZoom"
  /\ EffectiveWidth > 0
  /\ EffectiveHeight > 0
  /\ ZoomLatSpan = 0 \/ ZoomLngSpan = 0

\* C13: when the latitude span or the longitude span is 0 and the effective
\* canvas size is positive, the result is finite, lies in [1, 17] and equals
\* the clamped value obtained from the other term alone (17 when both spans
\* are 0); it is neither NaN nor an infinity.
C13_ZeroSpanTermExcluded ==
  ZeroSpanOnPositiveCanvas =>
    /\ IsNumber(zoom)
    /\ ~XLess(zoom, MinZoom)
    /\ ~XGreater(zoom, MaxZoom)
    /\ zoom = IF ZoomLatSpan = 0 /\ ZoomLngSpan = 0 THEN XWhole(MaxZoom)
              ELSE IF ZoomLatSpan = 0
                THEN ZoomFromTermAlone(EffectiveWidth, ZoomLngSpan, WORLD_PX_WIDTH)
              ELSE ZoomFromTermAlone(EffectiveHeight, ZoomLatSpan, WORLD_PX_HEIGHT)

C13_Witness ==
  /\ ZeroSpanOnPositiveCanvas
  /\ ZoomLatSpan = 0
  /\ ZoomLngSpan = Milli(4890)
  /\ zoomArgs.mapWidth = 800
  /\ zoom.k = "log2-half"
  /\ XGreater(zoom, 7)
  /\ XLess(zoom, 8)

\* x <= y for two values calculateOptimalZoom can return; a comparison with
\* NaN is false
XLessOrEqual(x, y) ==
  IF ~IsNumber(x) \/ ~IsNumber(y) THEN FALSE
  ELSE IF x.k = "whole" /\ y.k = "whole" THEN x.n <= y.n
  ELSE IF x.k = "whole" THEN ~XLess(y, x.n)
  ELSE IF y.k = "whole" THEN ~XGreater(x, y.n)
  ELSE ~RatLess(y.p, y.q, x.p, x.q)

\* the bounds records the second call is made with
OtherBounds ==
  {Bounds(north, south, east, west) :
     north \in ZoomLats, south \in ZoomLats, east \in ZoomLons, west \in ZoomLons}

\* C14: for a fixed canvas size, if the latitude span and the longitude span
\* of bounds B are each at least those of bounds A, then zoom(B) <= zoom(A).
C14_ZoomNonIncreasing ==
  called = "calculateOptimalZoom" =>
    \A b \in OtherBounds :
      ( /\ b.north - b.south >= ZoomLatSpan
        /\ b.east - b.west >= ZoomLngSpan )
      => XLessOrEqual(calculateOptimalZoom(b, zoomArgs.mapWidth, zoomArgs.mapHeight,
                                           DefaultPaddingPixels),
                      zoom)

\* the two corners of a valid bbox [west, south, east, north] as markers
BboxCorners(bbox) == <<LatLon(bbox[2].v, bbox[1].v), LatLon(bbox[4].v, bbox[3].v)>>

\* C15: with a valid explicit bbox the viewport is the one
\* calculateEnhancedBounds gives for the two bbox corners as two markers with
\* no routes and no polygons; it depends only on bbox, width and height: any
\* other markers, routes and polygons in the request give the same bounds,
\* center and zoom.
C15_BboxAloneDecides ==
  ValidBboxRequest =>
    /\ viewport = calculateEnhancedBounds(BboxCorners(options.bbox), <<>>,
                                          options.width, options.height, <<>>)
    /\ \A markers \in SeqsUpTo(MarkerItems, MaxBboxMarkers),
          routes \in SeqsUpTo(RouteCatalogue, MaxRoutes),
          polygons \in SeqsUpTo(PolygonCatalogue, MaxPolygons) :
         Viewport(Options(options.bbox, options.width, options.height,
                          markers, routes, polygons)) = viewport

C15_Witness ==
  /\ ValidBboxRequest
  /\ options.bbox = <<Num(Milli(4850)), Num(Milli(52350)), Num(Milli(4950)), Num(Milli(52400))>>
  /\ options.markers = <<Corner>>
  /\ Len(options.polygons) = 1
  /\ viewport.status = "ok"
  /\ viewport.bounds.north = Milli(52400) + Milli(40)
  /\ viewport.bounds.east < Deg(5)

PointPerValidItem(items) ==
  LET ok == SelectSeq(items, ValidItem)
  IN [i \in 1..Len(ok) |-> [lat |-> ok[i].vals[1].v, lon |-> ok[i].vals[2].v]]

\* one point per valid vertex of every route given as a bare array or as
\* {points: [...]}
PointPerRouteVertex(routes) ==
  Flatten([r \in 1..Len(routes) |->
             IF routes[r].form \in {"array", "points"}
               THEN PointPerValidItem(routes[r].points)
               ELSE <<>>])

IsCircle(polygon) ==
  polygon.type = "circle" /\ polygon.center.present /\ polygon.radius > 0

\* the ring vertices of a polygon: the coordinate arrays that are pairs [a, b]
IsPair(c) == Len(c) = 2
RingVertices(polygon) == SelectSeq(polygon.coordinates, IsPair)

\* one point per ring vertex [a, b], lon = a and lat = b, then the points of
\* the circle
PointPerRingVertex(polygons) ==
  Flatten([g \in 1..Len(polygons) |->
             [i \in 1..Len(RingVertices(polygons[g])) |->
                [lat |-> RingVertices(polygons[g])[i][2],
                 lon |-> RingVertices(polygons[g])[i][1]]]
             \o (IF IsCircle(polygons[g])
                   THEN OnGrid(generateCirclePoints(polygons[g].center.lat,
                                                    polygons[g].center.lon,
                                                    polygons[g].radius,
                                                    CircleSegments))
                   ELSE <<>>)])

\* C17: calculateEnhancedBounds collects exactly one point per valid marker,
\* one per valid route vertex (bare array and {points: [...]}), one per
\* polygon ring vertex and 64 per circle; a polygon vertex [a, b] is read as
\* lon = a, lat = b, an array-form route point [a, b] as lat = a, lon = b.
C17_OnePointPerFeature ==
  called = "calculateEnhancedBounds" =>
    /\ Collected = PointPerValidItem(options.markers)
                     \o PointPerRouteVertex(options.routes)
                     \o PointPerRingVertex(options.polygons)
    /\ \A g \in 1..Len(options.polygons) :
         Len(PolygonPoints(<<options.polygons[g]>>))
           = Len(RingVertices(options.polygons[g]))
               + (IF IsCircle(options.polygons[g]) THEN 64 ELSE 0)

C17_Witness ==
  /\ called = "calculateEnhancedBounds"
  /\ options.markers = <<Amsterdam, OutOfRange>>
  /\ Len(options.routes) = 1
  /\ options.routes[1].form = "array"
  /\ Len(options.polygons) = 1
  /\ IsCircle(options.polygons[1])
  /\ Len(Collected) = 1 + 2 + 64
  /\ Collected[2] = [lat |-> Milli(52370), lon |-> Milli(4890)]

\* the number of elements of a sequence that satisfy Test
CountOf(seq, Test(_)) == Len(SelectSeq(seq, Test))

DroppedItem(i) == ~ValidItem(i)
DroppedVertex(c) == ~IsPair(c)

\* the features of the call that contribute no point: markers and route
\* points that are not valid, polygon vertices that are not pairs
DroppedFeatures ==
  CountOf(options.markers, DroppedItem)
  + SumSeq([r \in 1..Len(options.routes) |->
              IF options.routes[r].form \in {"array", "points"}
                THEN CountOf(options.routes[r].points, DroppedItem)
                ELSE 0])
  + SumSeq([g \in 1..Len(options.polygons) |->
              CountOf(options.polygons[g].coordinates, DroppedVertex)])

\* C18: during calculateEnhancedBounds every dropped feature (a marker, route
\* point or polygon vertex that contributes no point) produces exactly one
\* warning entry, and a feature that contributes a point produces none: the
\* number of entries is the number of dropped features.
C18_OneWarningPerDroppedFeature ==
  (called = "calculateEnhancedBounds" /\ ~second.made) =>
    /\ sink = DroppedFeatures
    /\ Len(Collected) + DroppedFeatures
         = Len(options.markers)
           + SumSeq([r \in 1..Len(options.routes) |-> Len(options.routes[r].points)])
           + SumSeq([g \in 1..Len(options.polygons) |->
                       Len(options.polygons[g].coordinates)
                       + (IF IsCircle(options.polygons[g]) THEN CircleSegments ELSE 0)])

\* the result of the handler is a single item of type image carrying what
\* renderDynamicMap returned
IsImageOf(result, rendered) ==
  /\ ~result.isError
  /\ result.type = "image"
  /\ result.data = rendered.base64
  /\ result.mimeType = rendered.contentType

\* the result of the handler is an error whose text contains the message of
\* the value renderDynamicMap rejected with, when that value has one
IsErrorOf(result, value) ==
  /\ result.isError
  /\ result.type = "text"
  /\ HasMessage(value) => Includes(result.text, value.message)

\* C19: the handler of the tool never rejects: when renderDynamicMap rejects,
\* with whatever value, the handler resolves to a result with isError = true
\* whose text contains the message of the error verbatim; when renderDynamicMap
\* resolves, the handler resolves to one image item with the base64 data and
\* the content type that renderDynamicMap returned.
C19_HandlerNeverRejects ==
  called = "createDynamicMapHandler" =>
    /\ handled.result.settled = "resolve"
    /\ handled.rendered.settled = "reject" =>
         IsErrorOf(handled.result, handled.rendered.value)
    /\ handled.rendered.settled = "resolve" =>
         IsImageOf(handled.result, handled.rendered)

\* the text the test of the origin without destination asks for
RoutePlanningRequiresBoth ==
  <<"Route planning mode requires both origin and destination coordinates">>

\* the call reached the pairing check of renderDynamicMap with an origin and
\* no destination
OriginOnly ==
  /\ called = "createDynamicMapHandler"
  /\ handled.env.apiKey
  /\ handled.env.dependencies
  /\ HasOrigin(handled.request)
  /\ ~HasDestination(handled.request)

\* C20: renderDynamicMap called with an origin and no destination rejects with
\* an error whose message contains "Route planning mode requires both origin
\* and destination coordinates".
C20_OriginOnlyMessage ==
  OriginOnly =>
    /\ handled.rendered.settled = "reject"
    /\ HasMessage(handled.rendered.value)
    /\ Includes(handled.rendered.value.message, RoutePlanningRequiresBoth)

\* what the documentation asks of the arguments of generateCirclePoints
CircleArgumentsInRange ==
  /\ circle.centerLat >= Deg(-90) /\ circle.centerLat <= Deg(90)
  /\ circle.centerLon >= Deg(-180) /\ circle.centerLon <= Deg(180)
  /\ circle.radiusMeters > 0
  /\ circle.numPoints >= 0

PointInRange(point) ==
  /\ point.lat >= Deg(-90) /\ point.lat <= Deg(90)
  /\ point.lon >= Deg(-180) /\ point.lon <= Deg(180)

\* C21: for a center in range, a radius > 0 and a segment count n >= 0,
\* generateCirclePoints returns exactly n points, each with a latitude in
\* [-90, 90] and a longitude in [-180, 180].
C21_CirclePointsCountedAndInRange ==
  (called = "generateCirclePoints" /\ CircleArgumentsInRange) =>
    /\ Len(circle.points) = circle.numPoints
    /\ \A i \in 1..Len(circle.points) : PointInRange(circle.points[i])

\* the largest whole number between lo and hi whose square is at most n
RECURSIVE SqrtBetween(_, _, _)
SqrtBetween(n, lo, hi) ==
  IF lo = hi THEN lo
  ELSE IF ((lo + hi + 1) \div 2) * ((lo + hi + 1) \div 2) <= n
    THEN SqrtBetween(n, (lo + hi + 1) \div 2, hi)
    ELSE SqrtBetween(n, lo, ((lo + hi + 1) \div 2) - 1)

\* the cosine of the latitude of a center of the model, in ten-thousandths
CosTenThousandths(centerLat) ==
  IF centerLat = Milli(52370) THEN 6106
  ELSE IF centerLat = 0 THEN 10000
  ELSE 0

\* the angle between a center and a point, in units of 10 micro-degrees: the
\* difference in latitude and the difference in longitude times the cosine
\* of the latitude of the center, which is the great-circle angle up to
\* 0.2 % on a circle of 20 km and is exact for a center at a pole
AngleFromCenter(centerLat, centerLon, point) ==
  SqrtBetween(((point.lat - centerLat) \div 10) * ((point.lat - centerLat) \div 10)
              + ((((point.lon - centerLon) \div 10) * CosTenThousandths(centerLat))
                   \div 10000)
                * ((((point.lon - centerLon) \div 10) * CosTenThousandths(centerLat))
                     \div 10000),
              0, 40000)

\* the great-circle distance in millimetres on the sphere of radius
\* 6,371,000 m: 1111.95 mm for 10 micro-degrees
DistanceFromCenter(centerLat, centerLon, point) ==
  AngleFromCenter(centerLat, centerLon, point) * 1111
  + (AngleFromCenter(centerLat, centerLon, point) * 95) \div 100

WithinOnePercent(distance, radius) == Abs(distance - radius) * 100 <= radius

\* C22: for a center in range and a radius r in (0, 20000] metres, every point
\* that generateCirclePoints returns lies within 1 % of r, in great-circle
\* distance, from the center.
C22_CirclePointsAtRadius ==
  (called = "generateCirclePoints" /\ CircleArgumentsInRange
     /\ circle.radiusMeters <= Metres(20000)) =>
    \A i \in 1..Len(circle.points) :
      WithinOnePercent(DistanceFromCenter(circle.centerLat, circle.centerLon,
                                          circle.points[i]),
                       circle.radiusMeters)

\* the same pair of values in another of the three forms
InForm(shape, i) == Item(shape, i.vals)

\* C23: for an in-range pair (lat, lon) the three forms {lat, lon},
\* [lat, lon] and {coordinates: [lat, lon]} all give the same Point
\* {lat, lon}.
C23_ThreeFormsOnePoint ==
  (called = "extractCoordinates" /\ ValidItem(item) /\ Len(item.vals) = 2) =>
    /\ extracted.kind = "point"
    /\ extracted.lat = item.vals[1].v
    /\ extracted.lon = item.vals[2].v
    /\ \A shape \in {"array", "coordinates", "latlon"} :
         extractCoordinates(InForm(shape, item)) = extracted

C23_Witness ==
  /\ called = "extractCoordinates"
  /\ ValidItem(item)
  /\ item.shape = "array"
  /\ item.vals = <<Num(Milli(52370)), Num(Deg(180))>>
  /\ extracted.kind = "point"

\* the call of the state with one more marker, of invalid coordinates
\* (lat = 200), appended to markers
WithInvalidMarker ==
  calculateEnhancedBounds(Append(options.markers, OutOfRange), options.routes,
                          options.width, options.height, options.polygons)

\* C24: a marker dropped as invalid has no effect on the viewport:
\* calculateEnhancedBounds with one more marker of invalid coordinates
\* appended returns the same bounds, center and zoom as without it, and fails
\* exactly when the call without it fails.
C24_InvalidMarkerHasNoEffect ==
  (called = "calculateEnhancedBounds" /\ ~second.made) =>
    /\ (WithInvalidMarker.status = "throw") = (viewport.status = "throw")
    /\ viewport.status = "ok" =>
         /\ WithInvalidMarker.bounds = viewport.bounds
         /\ WithInvalidMarker.center = viewport.center
         /\ WithInvalidMarker.zoom = viewport.zoom

\* renderDynamicMap failed with "Dynamic map dependencies not available"
DependenciesFailure ==
  /\ called = "createDynamicMapHandler"
  /\ handled.rendered.settled = "reject"
  /\ HasMessage(handled.rendered.value)
  /\ Includes(handled.rendered.value.message,
              <<"Dynamic map dependencies not available">>)

\* C25: when the native packages are installed and ENABLE_DYNAMIC_MAPS is not
\* "false", no call of renderDynamicMap made after the module was loaded fails
\* with "Dynamic map dependencies not available", however the call interleaves
\* with the imports of the module.
C25_NoDependencyFailureWhenInstalled ==
  (service.loaded /\ service.enabled /\ service.installed) => ~DependenciesFailure

\* the positions of an event in what the call did
Positions(events, event) == {i \in 1..Len(events) : events[i] = event}

ConstructedMap ==
  /\ called = "createDynamicMapHandler"
  /\ Positions(handled.events, "construct") # {}

\* C26: in every invocation of renderMapWithMapLibre that constructs a native
\* map, map.release() is called exactly once, and before the returned promise
\* settles, on every terminal path: an exception while loading the style or
\* adding layers, an exception of map.render itself, a render error, a missing
\* buffer, a failed PNG conversion, and success.
C26_MapReleasedOnce ==
  ConstructedMap =>
    /\ Cardinality(Positions(handled.events, "release")) = 1
    /\ \A r \in Positions(handled.events, "release"),
          t \in Positions(handled.events, "settle") : r < t

SeqRange(seq) == {seq[i] : i \in 1..Len(seq)}

\* the only content of the call is one entry of polygons that the renderer
\* draws as a circle
OnlyOneDrawnCircle ==
  /\ options.markers = <<>>
  /\ options.routes = <<>>
  /\ Len(options.bbox) # 4
  /\ Len(options.polygons) = 1
  /\ DrawnAsCircle(options.polygons[1])
  /\ IsDrawn(options.polygons[1])

\* C27: every entry of polygons that the renderer turns into a drawn feature
\* (a circle with a numeric center and a positive radius, or a polygon of at
\* least 3 coordinates) contributes its points to the viewport that
\* calculateEnhancedBounds computes; a request whose only content is one
\* drawable circle never fails with "No valid coordinates found to calculate
\* bounds".
C27_DrawnFeaturesFrameTheViewport ==
  (called \in {"calculateEnhancedBounds", "renderMapWithMapLibre"} /\ ~second.made) =>
    /\ \A g \in 1..Len(options.polygons) :
         IsDrawn(options.polygons[g]) =>
           SeqRange(DrawnPoints(options.polygons[g])) \subseteq SeqRange(Collected)
    /\ OnlyOneDrawnCircle => ~(viewport.status = "throw"
                               /\ viewport.error = NoValidCoordinates)

\* renderDynamicMap processed the direct routes of the request
ProcessedDirectRoutes ==
  /\ called = "createDynamicMapHandler"
  /\ handled.env.apiKey
  /\ handled.env.dependencies
  /\ ~HasOrigin(handled.request)
  /\ ~HasDestination(handled.request)
  /\ HasContent(handled.request)
  /\ ~DirectRoutesThrow(handled.request.routes)

\* the markers after the direct routes were processed
MarkersRendered == MapLibreOptions(handled.request, handled.env).markers

\* a marker {lat, lon} lies within 0.001 degrees of a point on both axes
MarkerNear(marker, point) ==
  /\ marker.shape = "latlon"
  /\ marker.vals[1].t = "number"
  /\ marker.vals[2].t = "number"
  /\ Abs(marker.vals[1].v - point.lat) < Milli(1)
  /\ Abs(marker.vals[2].v - point.lon) < Milli(1)

PositionOf(marker) == [lat |-> marker.vals[1].v, lon |-> marker.vals[2].v]

\* C28: automatic start and end markers are added only if not present: after
\* the direct routes of a request were processed in order, every retained
\* route (at least 2 valid points) has a marker within 0.001 degrees, on both
\* axes, of its first point and of its last point, and no automatically added
\* marker lies within 0.001 degrees (both axes) of a marker that precedes it
\* in the list of markers.
C28_AutomaticMarkersOnlyIfAbsent ==
  ProcessedDirectRoutes =>
    /\ \A r \in 1..Len(handled.request.routes) :
         Len(ValidCoords(handled.request.routes[r])) > 1 =>
           /\ \E m \in 1..Len(MarkersRendered) :
                MarkerNear(MarkersRendered[m], ValidCoords(handled.request.routes[r])[1])
           /\ \E m \in 1..Len(MarkersRendered) :
                MarkerNear(MarkersRendered[m],
                           ValidCoords(handled.request.routes[r])
                             [Len(ValidCoords(handled.request.routes[r]))])
    /\ \A j \in (Len(handled.request.markers) + 1)..Len(MarkersRendered) :
         \A i \in 1..(j - 1) :
           ~MarkerNear(MarkersRendered[i], PositionOf(MarkersRendered[j]))

ValidationMessages ==
  {OriginWithoutDestination, DestinationWithoutOrigin, RequiresContent,
   InvalidOriginOrDestination}

RejectedDuringValidation ==
  /\ called = "createDynamicMapHandler"
  /\ handled.rendered.settled = "reject"
  /\ HasMessage(handled.rendered.value)
  /\ handled.rendered.value.message \in ValidationMessages

ExternalCalls == {"routing", "copyright", "style", "construct", "render", "release"}

\* C30: a request that renderDynamicMap rejects during validation (origin
\* without destination, destination without origin, no content at all, or an
\* origin or destination with invalid coordinates) is rejected before any call
\* to the routing service, the copyright or style endpoints, or the native
\* renderer: no external call occurs in such an execution.
C30_ValidationBeforeExternalCalls ==
  RejectedDuringValidation =>
    \A i \in 1..Len(handled.events) : handled.events[i] \notin ExternalCalls

\* an origin of invalid coordinates was rejected although the routing
\* service would have answered
C30_Witness ==
  /\ RejectedDuringValidation
  /\ handled.rendered.value.message = InvalidOriginOrDestination
  /\ handled.env.routing = "route"
  /\ handled.events = <<"settle">>

====
